---------------------------- MODULE Spec2Model ----------------------------
(***************************************************************************)
(* The BASIC-to-token-stream converter of zxgo (package basic) as a state  *)
(* machine: Parse reads a program line by line, parseLine / convertLine    *)
(* scan one line character by character, matchToken scans the token table, *)
(* expandSequence expands brace escapes.  Output bytes are integers 0..255. *)
(***************************************************************************)
EXTENDS Integers, Sequences, FiniteSets, TLC

(***************************************************************************)
(* Bounds of the model.                                                    *)
(***************************************************************************)
MaxLines == 3

(***************************************************************************)
(* Characters.  A character is a one-character string and a text is a      *)
(* sequence of characters.  Printable lists the ASCII characters 32..126   *)
(* in order, so Ord("A") = 65 (code 96 cannot be written as a string and   *)
(* is named).                                                              *)
(***************************************************************************)
Printable ==
  <<" ","!","\"","#","$","%","&","'","(",")","*","+",",","-",".","/",
    "0","1","2","3","4","5","6","7","8","9",":",";","<","=",">","?",
    "@","A","B","C","D","E","F","G","H","I","J","K","L","M","N","O",
    "P","Q","R","S","T","U","V","W","X","Y","Z","[","\\","]","^","_",
    "grave","a","b","c","d","e","f","g","h","i","j","k","l","m","n","o",
    "p","q","r","s","t","u","v","w","x","y","z","{","|","}","~">>

\* byte(c) of a character, and the character of a byte 32..126
Ord(c) == 31 + (CHOOSE i \in 1..Len(Printable) : Printable[i] = c)

Chr(b) == Printable[b - 31]

Byte == 0..255

\* byte(x): conversion of an int to a Go byte
ToByte(x) == x % 256

(***************************************************************************)
(* Helpers of the Go standard library, as far as the converter uses them.  *)
(***************************************************************************)
\* text[n:]
Drop(text, n) == SubSeq(text, n + 1, Len(text))

\* text[:n]
Take(text, n) == SubSeq(text, 1, n)

\* strings.HasPrefix
HasPrefix(text, prefix) ==
  /\ Len(prefix) <= Len(text)
  /\ \A i \in 1..Len(prefix) : text[i] = prefix[i]

LowerCase == <<"a","b","c","d","e","f","g","h","i","j","k","l","m",
               "n","o","p","q","r","s","t","u","v","w","x","y","z">>

UpperCase == <<"A","B","C","D","E","F","G","H","I","J","K","L","M",
               "N","O","P","Q","R","S","T","U","V","W","X","Y","Z">>

\* strings.ToUpper on ASCII text
UpperChar(c) ==
  IF \E i \in 1..26 : LowerCase[i] = c
  THEN UpperCase[CHOOSE i \in 1..26 : LowerCase[i] = c]
  ELSE c

ToUpper(text) == [i \in 1..Len(text) |-> UpperChar(text[i])]

\* unicode.IsSpace on the ASCII range (the vertical tab has no string form)
IsSpaceChar(c) == c \in {" ", "\t", "\n", "\f", "\r"}

RECURSIVE TrimLeft(_)
TrimLeft(text) ==
  IF text # <<>> /\ IsSpaceChar(Head(text)) THEN TrimLeft(Tail(text)) ELSE text

RECURSIVE TrimRight(_)
TrimRight(text) ==
  IF text # <<>> /\ IsSpaceChar(text[Len(text)])
  THEN TrimRight(Take(text, Len(text) - 1)) ELSE text

\* strings.TrimSpace
TrimSpace(text) == TrimRight(TrimLeft(text))

\* strings.IndexByte: the 0-based index of the first c in text, or -1
IndexByte(text, c) ==
  IF \E i \in 1..Len(text) : text[i] = c
  THEN (CHOOSE i \in 1..Len(text) :
          text[i] = c /\ \A j \in 1..(i - 1) : text[j] # c) - 1
  ELSE -1

\* the length of the first field of a text that starts with no white space
FieldLength(t) ==
  IF \E i \in 1..Len(t) : IsSpaceChar(t[i])
  THEN (CHOOSE i \in 1..Len(t) :
          IsSpaceChar(t[i]) /\ \A j \in 1..(i - 1) : ~IsSpaceChar(t[j])) - 1
  ELSE Len(t)

\* strings.Fields: split around runs of white space
RECURSIVE FieldsOf(_)
FieldsOf(t) ==
  IF t = <<>> THEN <<>>
  ELSE CHOOSE r \in {<<Take(t, n)>> \o FieldsOf(rest) :
                       n \in {FieldLength(t)}, rest \in {TrimLeft(Drop(t, FieldLength(t)))}} :
         TRUE

Fields(text) == FieldsOf(TrimLeft(text))

\* isDigit (parser.go) and isAlpha (token_matcher.go)
DecDigits == <<"0","1","2","3","4","5","6","7","8","9">>

isDigit(c) == \E i \in 1..10 : DecDigits[i] = c

isAlpha(c) == \E i \in 1..26 : UpperCase[i] = c \/ LowerCase[i] = c

\* the value of a decimal digit
DigitVal(c) == (CHOOSE i \in 1..10 : DecDigits[i] = c) - 1

\* the value of a text of decimal digits
RECURSIVE DigitsValue(_)
DigitsValue(digits) ==
  IF digits = <<>> THEN 0
  ELSE 10 * DigitsValue(Take(digits, Len(digits) - 1)) + DigitVal(digits[Len(digits)])

\* strconv.Atoi: an optional sign and at least one digit; ok = FALSE is err != nil
\* (texts of the model are far below the 64-bit range, where Atoi also fails)
AtoiDigits(text) == IF text # <<>> /\ text[1] \in {"+", "-"} THEN Tail(text) ELSE text

AtoiOk(digits) == digits # <<>> /\ \A i \in 1..Len(digits) : isDigit(digits[i])

Atoi(text) ==
  IF ~AtoiOk(AtoiDigits(text)) THEN [ok |-> FALSE, n |-> 0]
  ELSE IF text[1] = "-" THEN [ok |-> TRUE, n |-> 0 - DigitsValue(Tail(text))]
  ELSE [ok |-> TRUE, n |-> DigitsValue(AtoiDigits(text))]

\* the value of one hexadecimal digit, -1 when c is none
HexDigits == <<"0","1","2","3","4","5","6","7","8","9","a","b","c","d","e","f">>

HexDigit(c) ==
  IF \E i \in 1..16 : HexDigits[i] = c \/ UpperChar(HexDigits[i]) = c
  THEN (CHOOSE i \in 1..16 : HexDigits[i] = c \/ UpperChar(HexDigits[i]) = c) - 1
  ELSE -1

\* bitwise exclusive or of two naturals
RECURSIVE BitXor(_, _)
BitXor(a, b) ==
  IF a = 0 THEN b
  ELSE IF b = 0 THEN a
  ELSE (((a % 2) + (b % 2)) % 2) + 2 * BitXor(a \div 2, b \div 2)

(***************************************************************************)
(* Token kinds and keyword classes, and the token table.                   *)
(***************************************************************************)
ClassNone      == 0
ClassLet       == 1
ClassLetExpr   == 2
ClassExprOpt   == 3
ClassVarChar   == 4
ClassItems     == 5
ClassNumExpr   == 6
ClassColour    == 7
ClassTwoNum    == 8
ClassTwoNumCol == 9
ClassStrExpr   == 10
ClassTape      == 11
ClassStrList   == 12
ClassExprList  == 13
ClassVarList   == 14
ClassDEFFN     == 15

\* class entries that are characters are written as their codes: 40 41 44 61
\* are ( ) , = and 204 205 are the tokens TO and STEP
Tok(chars, type, class) == [Text |-> chars, Type |-> type, KeywordClass |-> class]

\* the entries 0xA3..0xFF of TokenMap, in order
KeywordTokens == <<
    Tok(<<"S","P","E","C","T","R","U","M">>, "Keyword", <<ClassNone>>),   \* 0xA3
    Tok(<<"P","L","A","Y">>, "Keyword", <<ClassStrList>>),   \* 0xA4
    Tok(<<"R","N","D">>, "NumExpr", <<ClassNone>>),   \* 0xA5
    Tok(<<"I","N","K","E","Y","$">>, "StrExpr", <<ClassNone>>),   \* 0xA6
    Tok(<<"P","I">>, "NumExpr", <<ClassNone>>),   \* 0xA7
    Tok(<<"F","N">>, "NumExpr", <<ClassLet, 40, ClassExprList, 41, 0>>),   \* 0xA8
    Tok(<<"P","O","I","N","T">>, "NumExpr", <<40, ClassTwoNum, 41, 0>>),   \* 0xA9
    Tok(<<"S","C","R","E","E","N","$">>, "StrExpr", <<40, ClassTwoNum, 41, 0>>),   \* 0xAA
    Tok(<<"A","T","T","R">>, "NumExpr", <<40, ClassTwoNum, 41, 0>>),   \* 0xAB
    Tok(<<"A","T">>, "Print", <<ClassTwoNum>>),   \* 0xAC
    Tok(<<"T","A","B">>, "Print", <<ClassNumExpr>>),   \* 0xAD
    Tok(<<"V","A","L","$">>, "StrExpr", <<ClassStrExpr>>),   \* 0xAE
    Tok(<<"C","O","D","E">>, "NumExpr", <<ClassStrExpr>>),   \* 0xAF
    Tok(<<"V","A","L">>, "NumExpr", <<ClassStrExpr>>),   \* 0xB0
    Tok(<<"L","E","N">>, "NumExpr", <<ClassStrExpr>>),   \* 0xB1
    Tok(<<"S","I","N">>, "NumExpr", <<ClassNumExpr>>),   \* 0xB2
    Tok(<<"C","O","S">>, "NumExpr", <<ClassNumExpr>>),   \* 0xB3
    Tok(<<"T","A","N">>, "NumExpr", <<ClassNumExpr>>),   \* 0xB4
    Tok(<<"A","S","N">>, "NumExpr", <<ClassNumExpr>>),   \* 0xB5
    Tok(<<"A","C","S">>, "NumExpr", <<ClassNumExpr>>),   \* 0xB6
    Tok(<<"A","T","N">>, "NumExpr", <<ClassNumExpr>>),   \* 0xB7
    Tok(<<"L","N">>, "NumExpr", <<ClassNumExpr>>),   \* 0xB8
    Tok(<<"E","X","P">>, "NumExpr", <<ClassNumExpr>>),   \* 0xB9
    Tok(<<"I","N","T">>, "NumExpr", <<ClassNumExpr>>),   \* 0xBA
    Tok(<<"S","Q","R">>, "NumExpr", <<ClassNumExpr>>),   \* 0xBB
    Tok(<<"S","G","N">>, "NumExpr", <<ClassNumExpr>>),   \* 0xBC
    Tok(<<"A","B","S">>, "NumExpr", <<ClassNumExpr>>),   \* 0xBD
    Tok(<<"P","E","E","K">>, "NumExpr", <<ClassNumExpr>>),   \* 0xBE
    Tok(<<"I","N">>, "NumExpr", <<ClassNumExpr>>),   \* 0xBF
    Tok(<<"U","S","R">>, "NumExpr", <<ClassNumExpr>>),   \* 0xC0
    Tok(<<"S","T","R","$">>, "StrExpr", <<ClassNumExpr>>),   \* 0xC1
    Tok(<<"C","H","R","$">>, "StrExpr", <<ClassNumExpr>>),   \* 0xC2
    Tok(<<"N","O","T">>, "NumExpr", <<ClassNumExpr>>),   \* 0xC3
    Tok(<<"B","I","N">>, "Typeless", <<>>),   \* 0xC4
    Tok(<<"O","R">>, "Typeless", <<ClassItems>>),   \* 0xC5
    Tok(<<"A","N","D">>, "Typeless", <<ClassItems>>),   \* 0xC6
    Tok(<<"<","=">>, "Typeless", <<ClassItems>>),   \* 0xC7
    Tok(<<">","=">>, "Typeless", <<ClassItems>>),   \* 0xC8
    Tok(<<"<",">">>, "Typeless", <<ClassItems>>),   \* 0xC9
    Tok(<<"L","I","N","E">>, "Typeless", <<>>),   \* 0xCA
    Tok(<<"T","H","E","N">>, "Typeless", <<>>),   \* 0xCB
    Tok(<<"T","O">>, "Typeless", <<>>),   \* 0xCC
    Tok(<<"S","T","E","P">>, "Typeless", <<>>),   \* 0xCD
    Tok(<<"D","E","F"," ","F","N">>, "Keyword", <<ClassDEFFN>>),   \* 0xCE
    Tok(<<"C","A","T">>, "Keyword", <<ClassTape>>),   \* 0xCF
    Tok(<<"F","O","R","M","A","T">>, "Keyword", <<ClassTape>>),   \* 0xD0
    Tok(<<"M","O","V","E">>, "Keyword", <<ClassTape>>),   \* 0xD1
    Tok(<<"E","R","A","S","E">>, "Keyword", <<ClassTape>>),   \* 0xD2
    Tok(<<"O","P","E","N"," ","#">>, "Keyword", <<ClassTape>>),   \* 0xD3
    Tok(<<"C","L","O","S","E"," ","#">>, "Keyword", <<ClassTape>>),   \* 0xD4
    Tok(<<"M","E","R","G","E">>, "Keyword", <<ClassTape>>),   \* 0xD5
    Tok(<<"V","E","R","I","F","Y">>, "Keyword", <<ClassTape>>),   \* 0xD6
    Tok(<<"B","E","E","P">>, "Keyword", <<ClassTwoNum>>),   \* 0xD7
    Tok(<<"C","I","R","C","L","E">>, "Keyword", <<ClassTwoNumCol, 44, ClassNumExpr>>),   \* 0xD8
    Tok(<<"I","N","K">>, "Colour", <<ClassColour>>),   \* 0xD9
    Tok(<<"P","A","P","E","R">>, "Colour", <<ClassColour>>),   \* 0xDA
    Tok(<<"F","L","A","S","H">>, "Colour", <<ClassColour>>),   \* 0xDB
    Tok(<<"B","R","I","G","H","T">>, "Colour", <<ClassColour>>),   \* 0xDC
    Tok(<<"I","N","V","E","R","S","E">>, "Colour", <<ClassColour>>),   \* 0xDD
    Tok(<<"O","V","E","R">>, "Colour", <<ClassColour>>),   \* 0xDE
    Tok(<<"O","U","T">>, "Keyword", <<ClassTwoNum>>),   \* 0xDF
    Tok(<<"L","P","R","I","N","T">>, "Keyword", <<ClassItems>>),   \* 0xE0
    Tok(<<"L","L","I","S","T">>, "Keyword", <<ClassExprOpt>>),   \* 0xE1
    Tok(<<"S","T","O","P">>, "Keyword", <<ClassNone>>),   \* 0xE2
    Tok(<<"R","E","A","D">>, "Keyword", <<ClassVarList>>),   \* 0xE3
    Tok(<<"D","A","T","A">>, "Colour", <<ClassExprList>>),   \* 0xE4
    Tok(<<"R","E","S","T","O","R","E">>, "Keyword", <<ClassExprOpt>>),   \* 0xE5
    Tok(<<"N","E","W">>, "Keyword", <<ClassNone>>),   \* 0xE6
    Tok(<<"B","O","R","D","E","R">>, "Keyword", <<ClassNumExpr>>),   \* 0xE7
    Tok(<<"C","O","N","T","I","N","U","E">>, "Keyword", <<ClassNone>>),   \* 0xE8
    Tok(<<"D","I","M">>, "Keyword", <<ClassLet, 40, ClassExprList, 41, 0>>),   \* 0xE9
    Tok(<<"R","E","M">>, "Keyword", <<ClassItems>>),   \* 0xEA
    Tok(<<"F","O","R">>, "Keyword", <<ClassVarChar, 61, ClassNumExpr, 204, ClassNumExpr, 205, ClassNumExpr>>),   \* 0xEB
    Tok(<<"G","O"," ","T","O">>, "Keyword", <<ClassNumExpr>>),   \* 0xEC
    Tok(<<"G","O"," ","S","U","B">>, "Keyword", <<ClassNumExpr>>),   \* 0xED
    Tok(<<"I","N","P","U","T">>, "Keyword", <<ClassItems>>),   \* 0xEE
    Tok(<<"L","O","A","D">>, "Keyword", <<ClassTape>>),   \* 0xEF
    Tok(<<"L","I","S","T">>, "Keyword", <<ClassExprOpt>>),   \* 0xF0
    Tok(<<"L","E","T">>, "Keyword", <<ClassLet, 61, ClassLetExpr>>),   \* 0xF1
    Tok(<<"P","A","U","S","E">>, "Keyword", <<ClassNumExpr>>),   \* 0xF2
    Tok(<<"N","E","X","T">>, "Keyword", <<ClassVarChar>>),   \* 0xF3
    Tok(<<"P","O","K","E">>, "Keyword", <<ClassTwoNum>>),   \* 0xF4
    Tok(<<"P","R","I","N","T">>, "Keyword", <<ClassItems>>),   \* 0xF5
    Tok(<<"P","L","O","T">>, "Keyword", <<ClassTwoNumCol>>),   \* 0xF6
    Tok(<<"R","U","N">>, "Keyword", <<ClassExprOpt>>),   \* 0xF7
    Tok(<<"S","A","V","E">>, "Keyword", <<ClassTape>>),   \* 0xF8
    Tok(<<"R","A","N","D","O","M","I","Z","E">>, "Keyword", <<ClassExprOpt>>),   \* 0xF9
    Tok(<<"I","F">>, "Keyword", <<ClassNumExpr, 203>>),   \* 0xFA
    Tok(<<"C","L","S">>, "Keyword", <<ClassNone>>),   \* 0xFB
    Tok(<<"D","R","A","W">>, "Keyword", <<ClassTwoNumCol, 44, ClassNumExpr>>),   \* 0xFC
    Tok(<<"C","L","E","A","R">>, "Keyword", <<ClassExprOpt>>),   \* 0xFD
    Tok(<<"R","E","T","U","R","N">>, "Keyword", <<ClassNone>>),   \* 0xFE
    Tok(<<"C","O","P","Y">>, "Keyword", <<ClassNone>>)   \* 0xFF
>>

\* TokenMap (the table and init): one definition for every byte value
TokenMap ==
  [b \in Byte |->
     IF b >= 163 THEN KeywordTokens[b - 162]
     ELSE IF b = 58 THEN Tok(<<":">>, "Keyword", <<0>>)
     ELSE IF b >= 32 /\ b < 127 THEN Tok(<<Chr(b)>>, "Typeless", <<>>)
     ELSE IF b = 127 THEN Tok(<<"del">>, "Typeless", <<>>)
     ELSE IF b >= 128 /\ b <= 135
       THEN Tok(<<"{", "-", DecDigits[(b - 127) + 1], "}">>, "Typeless", <<>>)
     ELSE IF b >= 136 /\ b <= 143
       THEN Tok(<<"{", "+", DecDigits[(b - 135) + 1], "}">>, "Typeless", <<>>)
     ELSE IF b >= 144 /\ b <= 162
       THEN Tok(<<"{", UpperCase[(b - 144) + 1], "}">>, "Typeless", <<>>)
     ELSE IF b = 13 THEN Tok(<<"(","e","o","l","n",")">>, "Typeless", <<>>)
     ELSE IF b = 6 THEN Tok(<<>>, "Typeless", <<0>>)
     ELSE Tok(<<>>, "Typeless", <<>>)]

(***************************************************************************)
(* matchToken: the scan of the token table.  The loop counter is a byte.   *)
(***************************************************************************)
\* the first value of the loop counter: byte(0xA3)
FirstToken == 163

\* the loop condition: token <= 0xFF
LoopCond(token) == token <= 255

\* token++ on a byte
NextToken(token) == (token + 1) % 256

\* token++ at the end of an iteration; s holds the locals token, longestMatch,
\* matchedToken and found
MatchTokenNext(s) == [s EXCEPT !.token = NextToken(s.token)]

\* a faulty variant of MatchTokenBody, which C10 must tell apart: the length of
\* the match so far is not looked at, so the last matching candidate is kept
MatchTokenBodyLast(s, tokenDef, txt, upper, caseInd) ==
  IF tokenDef.Text = <<>> THEN MatchTokenNext(s)
  ELSE IF ~(IF caseInd
            THEN HasPrefix(upper, ToUpper(tokenDef.Text))
            ELSE HasPrefix(txt, tokenDef.Text))
    THEN MatchTokenNext(s)
  ELSE IF /\ Len(tokenDef.Text) < Len(txt)
          /\ isAlpha(txt[Len(tokenDef.Text) + 1])
          /\ isAlpha(txt[Len(tokenDef.Text)])
    THEN MatchTokenNext(s)
  ELSE [token |-> NextToken(s.token), longestMatch |-> Len(tokenDef.Text),
        matchedToken |-> s.token, found |-> TRUE]

\* The body of the loop on the candidate s.token with entry tokenDef, and
\* token++; upper is strings.ToUpper(text), the same in every iteration.
MatchTokenBody(s, tokenDef, txt, upper, caseInd) ==
  IF tokenDef.Text = <<>> THEN MatchTokenNext(s)
  ELSE IF ~(IF caseInd
            THEN HasPrefix(upper, ToUpper(tokenDef.Text))
            ELSE HasPrefix(txt, tokenDef.Text))
    THEN MatchTokenNext(s)
  ELSE IF ~(Len(tokenDef.Text) > s.longestMatch) THEN MatchTokenNext(s)
  ELSE IF /\ Len(tokenDef.Text) < Len(txt)
          /\ isAlpha(txt[Len(tokenDef.Text) + 1])
          /\ isAlpha(txt[Len(tokenDef.Text)])
    THEN MatchTokenNext(s)
  ELSE [token |-> NextToken(s.token), longestMatch |-> Len(tokenDef.Text),
        matchedToken |-> s.token, found |-> TRUE]

\* up to n iterations of the loop, each taken while the loop condition holds;
\* the entry of the table (tokenDef) and the locals after an iteration (nx) are
\* bound as values before the next one
RECURSIVE MatchTokenIters(_, _, _, _, _)
MatchTokenIters(s, n, txt, upper, caseInd) ==
  IF n = 0 \/ ~LoopCond(s.token) THEN s
  ELSE CHOOSE r \in {MatchTokenIters(nx, n - 1, txt, upper, caseInd) :
                       nx \in {MatchTokenBody(s, tokenDef, txt, upper, caseInd) :
                                 tokenDef \in {TokenMap[s.token]}}} :
         TRUE

\* the same, n iterations taken sixteen at a time
RECURSIVE MatchTokenLoop(_, _, _, _, _)
MatchTokenLoop(s, n, txt, upper, caseInd) ==
  IF n <= 16 \/ ~LoopCond(s.token) THEN MatchTokenIters(s, n, txt, upper, caseInd)
  ELSE CHOOSE r \in {MatchTokenLoop(nx, n - 16, txt, upper, caseInd) :
                       nx \in {MatchTokenIters(s, 16, txt, upper, caseInd)}} : TRUE

\* A pass of the loop is its iterations over one range of the table: from the
\* counter up to the end of the keyword range 0xA3..0xFF, or of the range
\* 0x00..0xA2 below it.
PassLength(token) == IF token >= FirstToken THEN 256 - token ELSE FirstToken - token

\* validateKeywordClass: "" is a nil error
validateKeywordClass(tok, class, bracketCount, tokenBracket) ==
  IF Len(class) = 0 THEN ""
  ELSE IF tok = 234 THEN ""                                    \* REM
  ELSE IF tok = 250 /\ bracketCount > 0 THEN "IF not allowed within brackets"
  ELSE IF tok = 241 /\ bracketCount > 0 THEN "LET not allowed within brackets"
  ELSE IF class[1] = ClassNone THEN ""
  ELSE IF class[1] = ClassLet /\ tokenBracket THEN "variable required here"
  ELSE IF class[1] = ClassLetExpr /\ ~tokenBracket /\ bracketCount = 0
    THEN "expression required here"
  ELSE IF class[1] = ClassVarChar /\ tokenBracket
    THEN "single character variable required here"
  ELSE ""

\* validateTokenContext
validateTokenContext(tok, type, class, p) ==
  IF tok = 58 THEN ""                                          \* ':'
  ELSE IF tok \in {172, 173} /\ ~p.inPrint                     \* AT or TAB
    THEN "AT/TAB only allowed in PRINT statements"
  ELSE IF type = "Keyword"
          /\ validateKeywordClass(tok, class, p.bracketCount, p.tokenBracket) # ""
    THEN validateKeywordClass(tok, class, p.bracketCount, p.tokenBracket)
  ELSE IF type \in {"NumExpr", "StrExpr"} /\ p.handlingDEFFN /\ ~p.insideDEFFN
    THEN "expression not allowed here in DEF FN"
  ELSE ""

\* handleProgramType, first switch (SPECTRUM or PLAY): the error and the dialect
\* flag afterwards
handle128K(tok, is48K) ==
  IF tok \in {163, 164}
  THEN IF is48K = -1 THEN [err |-> "", is48K |-> 0]
       ELSE IF is48K = 1
         THEN [err |-> "program contains 128K keywords but was already marked as 48K",
               is48K |-> is48K]
       ELSE [err |-> "", is48K |-> is48K]
  ELSE [err |-> "", is48K |-> is48K]

\* handleProgramType, second switch (the UDGs T and U), on the flag a.is48K
handleUDG(tok, a) ==
  IF a.err # "" THEN a
  ELSE IF tok >= 144 /\ tok <= 162 /\ tok \in {144 + 19, 144 + 20}
    THEN IF a.is48K = -1 THEN [err |-> "", is48K |-> 1]
         ELSE IF a.is48K = 0
           THEN [err |-> "program contains 48K UDGs but was already marked as 128K",
                 is48K |-> a.is48K]
         ELSE a
  ELSE a

\* handleProgramType: the error and the dialect flag afterwards
handleProgramType(tok, is48K) == handleUDG(tok, handle128K(tok, is48K))

\* the results of matchToken: (nil, nil), (nil, err) and a match
MatchNil(is48K) == [res |-> "nil", err |-> "", Value |-> 0, Length |-> 0, is48K |-> is48K]

MatchErr(e, is48K) == [res |-> "err", err |-> e, Value |-> 0, Length |-> 0, is48K |-> is48K]

\* the end of matchToken, after the token is validated: h is the outcome of
\* handleProgramType
MatchTokenEnd(st, h, is48K) ==
  IF h.err # "" THEN MatchErr(h.err, is48K)
  ELSE [res |-> "match", err |-> "", Value |-> st.matchedToken,
        Length |-> st.longestMatch, is48K |-> h.is48K]

\* matchToken after its loop, for a matched token with entry tokenDef
MatchTokenFound(st, tokenDef, wantKeyword, p) ==
  IF wantKeyword /\ tokenDef.Type # "Keyword" /\ tokenDef.Type # "Colour"
    THEN MatchNil(p.is48K)
  ELSE IF ~wantKeyword /\ tokenDef.Type = "Keyword" THEN MatchNil(p.is48K)
  ELSE IF validateTokenContext(st.matchedToken, tokenDef.Type, tokenDef.KeywordClass, p) # ""
    THEN MatchErr(validateTokenContext(st.matchedToken, tokenDef.Type,
                                       tokenDef.KeywordClass, p), p.is48K)
  ELSE MatchTokenEnd(st, handleProgramType(st.matchedToken, p.is48K), p.is48K)

\* matchToken after its loop: the result for the locals st.  res is "nil" (no
\* match), "err" or "match"; is48K is the dialect flag afterwards.
MatchTokenResult(st, wantKeyword, p) ==
  IF ~st.found THEN MatchNil(p.is48K)
  ELSE MatchTokenFound(st, TokenMap[st.matchedToken], wantKeyword, p)

(***************************************************************************)
(* expandSequence and its sub-grammars.  A result is a record: res is      *)
(* "nil" (no sequence), "err" or "match"; is48K and currentParams are the  *)
(* parser fields afterwards.                                               *)
(***************************************************************************)
SeqNil(is48K, params) ==
  [res |-> "nil", err |-> "", Bytes |-> <<>>, Length |-> 0,
   is48K |-> is48K, currentParams |-> params]

SeqErr(e, is48K, params) ==
  [res |-> "err", err |-> e, Bytes |-> <<>>, Length |-> 0,
   is48K |-> is48K, currentParams |-> params]

SeqMatch(bytes, length, is48K, params) ==
  [res |-> "match", err |-> "", Bytes |-> bytes, Length |-> length,
   is48K |-> is48K, currentParams |-> params]

\* trySpecialCharacter
trySpecialCharacter(seq, end, is48K, params) ==
  IF ToUpper(seq) = <<"(","C",")">> THEN SeqMatch(<<127>>, end + 1, is48K, params)
  ELSE IF ToUpper(seq) = <<"C","O","D","E">> THEN SeqMatch(<<175>>, end + 1, is48K, params)
  ELSE IF ToUpper(seq) = <<"C","A","T">> THEN SeqMatch(<<207>>, end + 1, is48K, params)
  ELSE SeqNil(is48K, params)

\* tryUDG, for a single letter whose upper case has code udg
UDGMatch(udg, end, is48K, params) ==
  IF udg < Ord("A") \/ udg > Ord("U") THEN SeqNil(is48K, params)
  ELSE IF udg \in {Ord("T"), Ord("U")} /\ is48K = 0
    THEN SeqErr("UDG not available in 128K mode", is48K, params)
  ELSE SeqMatch(<<ToByte(144 + (udg - Ord("A")))>>, end + 1,
                IF udg \in {Ord("T"), Ord("U")} /\ is48K = -1 THEN 1 ELSE is48K,
                params)

\* tryUDG
tryUDG(seq, end, is48K, params) ==
  IF Len(seq) # 1 \/ ~isAlpha(seq[1]) THEN SeqNil(is48K, params)
  ELSE UDGMatch(Ord(UpperChar(seq[1])), end, is48K, params)

\* tryBlockGraphics, for a prefix byte and the outcome a of Atoi(seq[1:])
BlockGraphicsMatch(prefix, a, end, is48K, params) ==
  IF ~a.ok \/ a.n < 1 \/ a.n > 8 THEN SeqNil(is48K, params)
  ELSE IF prefix = 136
    THEN SeqMatch(<<ToByte(prefix + ToByte(BitXor(a.n % 8, 7)))>>, end + 1, is48K, params)
  ELSE SeqMatch(<<ToByte(prefix + ToByte(a.n % 8))>>, end + 1, is48K, params)

\* tryBlockGraphics
tryBlockGraphics(seq, end, is48K, params) ==
  IF Len(seq) # 2 THEN SeqNil(is48K, params)
  ELSE IF seq[1] \notin {"+", "-"} THEN SeqNil(is48K, params)
  ELSE BlockGraphicsMatch(IF seq[1] = "+" THEN 136 ELSE 128, Atoi(Drop(seq, 1)),
                          end, is48K, params)

\* tryHexValue: strconv.ParseUint(seq, 16, 8) of two characters
tryHexValue(seq, end, is48K, params) ==
  IF Len(seq) # 2 THEN SeqNil(is48K, params)
  ELSE IF HexDigit(seq[1]) < 0 \/ HexDigit(seq[2]) < 0 THEN SeqNil(is48K, params)
  ELSE SeqMatch(<<ToByte(16 * HexDigit(seq[1]) + HexDigit(seq[2]))>>, end + 1,
                is48K, params)

\* a faulty variant of validateControlParam, which C18 must tell apart: the
\* parameter of an unknown command is let through
validateControlParamLax(cmd, param, paramIndex) ==
  IF cmd = <<"A","T">>
  THEN IF paramIndex = 0
       THEN IF param < 0 \/ param > 23 THEN "AT row must be between 0 and 23" ELSE ""
       ELSE IF paramIndex = 1
       THEN IF param < 0 \/ param > 31 THEN "AT column must be between 0 and 31" ELSE ""
       ELSE "AT requires exactly 2 parameters"
  ELSE IF cmd = <<"T","A","B">>
  THEN IF param < 0 \/ param > 31 THEN "TAB position must be between 0 and 31" ELSE ""
  ELSE IF cmd \in {<<"I","N","K">>, <<"P","A","P","E","R">>}
  THEN IF param < 0 \/ param > 7 THEN "color must be between 0 and 7" ELSE ""
  ELSE IF param < 0 \/ param > 1 THEN "must be 0 or 1" ELSE ""

\* validateControlParam: "" is a nil error
validateControlParam(cmd, param, paramIndex) ==
  IF cmd = <<"A","T">>
  THEN IF paramIndex = 0
       THEN IF param < 0 \/ param > 23 THEN "AT row must be between 0 and 23" ELSE ""
       ELSE IF paramIndex = 1
       THEN IF param < 0 \/ param > 31 THEN "AT column must be between 0 and 31" ELSE ""
       ELSE "AT requires exactly 2 parameters"
  ELSE IF cmd = <<"T","A","B">>
  THEN IF param < 0 \/ param > 31 THEN "TAB position must be between 0 and 31" ELSE ""
  ELSE IF cmd \in {<<"I","N","K">>, <<"P","A","P","E","R">>}
  THEN IF param < 0 \/ param > 7 THEN "color must be between 0 and 7" ELSE ""
  ELSE IF cmd \in {<<"F","L","A","S","H">>, <<"B","R","I","G","H","T">>,
                   <<"I","N","V","E","R","S","E">>, <<"O","V","E","R">>}
  THEN IF param < 0 \/ param > 1 THEN "must be 0 or 1" ELSE ""
  ELSE "unknown control sequence"

\* the single-parameter commands of getControlBytes and their control codes
ControlCode(cmd) ==
  IF cmd = <<"I","N","K">> THEN 16
  ELSE IF cmd = <<"P","A","P","E","R">> THEN 17
  ELSE IF cmd = <<"F","L","A","S","H">> THEN 18
  ELSE IF cmd = <<"B","R","I","G","H","T">> THEN 19
  ELSE IF cmd = <<"I","N","V","E","R","S","E">> THEN 20
  ELSE IF cmd = <<"O","V","E","R">> THEN 21
  ELSE -1

\* getControlBytes: res is "bytes", "err" or "nil" (a nil slice and no error)
getControlBytes(cmd, params, inPrint) ==
  IF cmd \in {<<"A","T">>, <<"T","A","B">>} /\ ~inPrint
  THEN [res |-> "err", err |-> "only allowed in PRINT statements", Bytes |-> <<>>]
  ELSE IF cmd = <<"A","T">>
  THEN IF Len(params) # 2
       THEN [res |-> "err", err |-> "AT requires row and column parameters", Bytes |-> <<>>]
       ELSE [res |-> "bytes", err |-> "",
             Bytes |-> <<22, ToByte(params[1]), ToByte(params[2])>>]
  ELSE IF cmd = <<"T","A","B">>
  THEN IF Len(params) # 1
       THEN [res |-> "err", err |-> "TAB requires one parameter", Bytes |-> <<>>]
       ELSE [res |-> "bytes", err |-> "", Bytes |-> <<23, ToByte(params[1])>>]
  ELSE IF ControlCode(cmd) >= 0
  THEN IF Len(params) # 1
       THEN [res |-> "err", err |-> "requires one parameter", Bytes |-> <<>>]
       ELSE [res |-> "bytes", err |-> "",
             Bytes |-> <<ControlCode(cmd), ToByte(params[1])>>]
  ELSE [res |-> "nil", err |-> "", Bytes |-> <<>>]

\* the parameter loop of tryControlSequence over the fields after the command:
\* a is the outcome of Atoi on the first field
RECURSIVE ControlParams(_, _, _)
\* a faulty variant of ControlParam, which C25 must tell apart: the parameter is
\* taken without validateControlParam
ControlParamUnchecked(cmd, fields, params, a) ==
  IF ~a.ok THEN [res |-> "nil", err |-> "", params |-> params]
  ELSE ControlParams(cmd, Tail(fields), Append(params, a.n))

ControlParam(cmd, fields, params, a) ==
  IF ~a.ok THEN [res |-> "nil", err |-> "", params |-> params]
  ELSE IF validateControlParam(cmd, a.n, Len(params)) # ""
    THEN [res |-> "err", err |-> validateControlParam(cmd, a.n, Len(params)),
          params |-> params]
  ELSE ControlParams(cmd, Tail(fields), Append(params, a.n))

ControlParams(cmd, fields, params) ==
  IF fields = <<>> THEN [res |-> "ok", err |-> "", params |-> params]
  ELSE CHOOSE r \in {ControlParam(cmd, fields, params, a) : a \in {Atoi(Head(fields))}} :
         TRUE

\* the end of tryControlSequence: r is the outcome of getControlBytes
ControlResult(r, end, is48K, cp) ==
  IF r.res = "err" THEN SeqErr(r.err, is48K, cp)
  ELSE IF r.res = "nil" THEN SeqNil(is48K, cp)
  ELSE SeqMatch(r.Bytes, end + 1, is48K, cp)

\* tryControlSequence with parameters: pl is the outcome of the parameter loop
ControlWithParams(cmd, pl, end, is48K, inPrint) ==
  IF pl.res = "nil" THEN SeqNil(is48K, pl.params)
  ELSE IF pl.res = "err" THEN SeqErr(pl.err, is48K, pl.params)
  ELSE CHOOSE m \in {ControlResult(r, end, is48K, pl.params) :
                       r \in {getControlBytes(cmd, pl.params, inPrint)}} : TRUE

\* tryControlSequence on the fields of the sequence
ControlFields(parts, end, is48K, currentParams, inPrint) ==
  IF Len(parts) = 0 THEN SeqNil(is48K, currentParams)
  ELSE IF Len(parts) > 1
    THEN CHOOSE m \in {ControlWithParams(ToUpper(parts[1]), pl, end, is48K, inPrint) :
                         pl \in {ControlParams(ToUpper(parts[1]), Tail(parts), <<>>)}} :
           TRUE
  ELSE CHOOSE m \in {ControlResult(r, end, is48K, currentParams) :
                       r \in {getControlBytes(ToUpper(parts[1]), <<>>, inPrint)}} : TRUE

\* tryControlSequence
tryControlSequence(seq, end, is48K, currentParams, inPrint) ==
  CHOOSE m \in {ControlFields(parts, end, is48K, currentParams, inPrint) :
                  parts \in {Fields(seq)}} : TRUE

\* adjustSpaces: with stripSpaces the spaces after the sequence are consumed too
RECURSIVE SpacesFrom(_, _)
SpacesFrom(text, i) ==
  IF i < Len(text) /\ text[i + 1] = " " THEN SpacesFrom(text, i + 1) ELSE i

adjustSpaces(match, text, stripSpaces) ==
  IF stripSpaces THEN [match EXCEPT !.Length = SpacesFrom(text, match.Length)]
  ELSE match

\* expandSequence from tryControlSequence on: m is its outcome
TryControl(m, text, stripSpaces) ==
  IF m.res = "match" THEN adjustSpaces(m, text, stripSpaces) ELSE m

\* expandSequence from tryHexValue on: m is its outcome
TryHex(m, text, seq, end, stripSpaces, is48K, currentParams, inPrint) ==
  IF m.res = "match" THEN adjustSpaces(m, text, stripSpaces)
  ELSE CHOOSE r \in {TryControl(c, text, stripSpaces) :
                       c \in {tryControlSequence(seq, end, is48K, currentParams, inPrint)}} :
         TRUE

\* expandSequence from tryBlockGraphics on: m is its outcome
TryBlock(m, text, seq, end, stripSpaces, is48K, currentParams, inPrint) ==
  IF m.res = "match" THEN adjustSpaces(m, text, stripSpaces)
  ELSE CHOOSE r \in {TryHex(h, text, seq, end, stripSpaces, is48K, currentParams, inPrint) :
                       h \in {tryHexValue(seq, end, is48K, currentParams)}} : TRUE

\* expandSequence from tryUDG on: m is its outcome, m.is48K the flag it leaves
TryUDG(m, text, seq, end, stripSpaces, currentParams, inPrint) ==
  IF m.res = "err" THEN m
  ELSE IF m.res = "match" THEN adjustSpaces(m, text, stripSpaces)
  ELSE CHOOSE r \in {TryBlock(b, text, seq, end, stripSpaces, m.is48K, currentParams,
                                inPrint) :
                       b \in {tryBlockGraphics(seq, end, m.is48K, currentParams)}} : TRUE

\* expandSequence from trySpecialCharacter on: m is its outcome
TrySpecial(m, text, seq, end, stripSpaces, is48K, currentParams, inPrint) ==
  IF m.res = "match" THEN adjustSpaces(m, text, stripSpaces)
  ELSE CHOOSE r \in {TryUDG(u, text, seq, end, stripSpaces, currentParams, inPrint) :
                       u \in {tryUDG(seq, end, is48K, currentParams)}} : TRUE

\* expandSequence for a text with a closing brace at index end
ExpandBraces(text, seq, end, stripSpaces, is48K, currentParams, inPrint) ==
  IF seq = <<>> THEN SeqNil(is48K, currentParams)
  ELSE CHOOSE r \in {TrySpecial(s, text, seq, end, stripSpaces, is48K, currentParams,
                                  inPrint) :
                       s \in {trySpecialCharacter(seq, end, is48K, currentParams)}} : TRUE

\* expandSequence
expandSequence(text, stripSpaces, is48K, currentParams, inPrint) ==
  IF ~HasPrefix(text, <<"{">>) THEN SeqNil(is48K, currentParams)
  ELSE IF IndexByte(text, "}") = -1
    THEN IF Len(text) > 10 THEN SeqErr("unclosed sequence", is48K, currentParams)
         ELSE SeqNil(is48K, currentParams)
  ELSE CHOOSE r \in {ExpandBraces(text, SubSeq(text, 2, end), end, stripSpaces, is48K,
                                    currentParams, inPrint) :
                       end \in {IndexByte(text, "}")}} : TRUE

(***************************************************************************)
(* The numeric encoder.  A real value is a record                          *)
(* [neg, num, den, pow2] for (+/-) (num / den) * 2^pow2.                   *)
(***************************************************************************)
numberMarker == 14
maxInt == 65535
minInt == -65535
maxExp == 126
minExp == -129
mantMask == 127
signMask == 128
expBias == 129

\* a faulty variant of encodeSmallInt, which C13 must tell apart: the sign byte
\* is left 0x00 for a negative value
encodeSmallIntUnsigned(val) ==
  LET v == IF val < minInt THEN minInt ELSE IF val > maxInt THEN maxInt ELSE val
      a == IF v < 0 THEN 0 - v ELSE v
  IN <<numberMarker, 0, 0, ToByte(a % 256), ToByte((a \div 256) % 256), 0>>

\* encodeSmallInt
encodeSmallInt(val) ==
  LET v == IF val < minInt THEN minInt ELSE IF val > maxInt THEN maxInt ELSE val
      a == IF v < 0 THEN 0 - v ELSE v
  IN <<numberMarker, 0, IF v < 0 THEN 255 ELSE 0,
       ToByte(a % 256), ToByte((a \div 256) % 256), 0>>

\* math.Floor(math.Log2(num / den)) for num, den > 0
RECURSIVE FloorLog2(_, _)
FloorLog2(num, den) ==
  IF num >= 2 * den THEN 1 + FloorLog2(num, 2 * den)
  ELSE IF num < den THEN FloorLog2(2 * num, den) - 1
  ELSE 0

\* the first n binary digits of r / den (0 <= r < den) as a number, and the rest
RECURSIVE FractionBits(_, _, _, _)
FractionBits(r, den, n, acc) ==
  IF n = 0 THEN [bits |-> acc, rest |-> r]
  ELSE IF 2 * r >= den THEN FractionBits(2 * r - den, den, n - 1, 2 * acc + 1)
  ELSE FractionBits(2 * r, den, n - 1, 2 * acc)

RECURSIVE Pow2(_)
Pow2(n) == IF n = 0 THEN 1 ELSE 2 * Pow2(n - 1)

RECURSIVE Pow10(_)
Pow10(n) == IF n = 0 THEN 1 ELSE 10 * Pow10(n - 1)

\* byte(x) of a float64 x holding an integer: for x outside 0..255 the Go
\* specification leaves the result to the implementation; conv names the two
\* results builds produce, the low 8 bits ("wrap") or a saturated value ("sat")
FloatToByte(x, conv) ==
  IF x >= 0 /\ x <= 255 THEN x
  ELSE IF conv = "wrap" THEN x % 256
  ELSE IF x < 0 THEN 0 ELSE 255

\* encodeFloat: err is "" or the range error.  The mantissa
\* floor((val / 2^exp - 1) * 2^31 + 0.5) is held as its high 16 and low 16 bits.
encodeFloat(val, conv) ==
  IF val.num = 0
  THEN [err |-> "", Bytes |-> <<numberMarker, 0, 0, 0, 0, 0>>]
  ELSE LET sign == IF val.neg THEN signMask ELSE 0
           e0   == FloorLog2(val.num, val.den)
           exp  == e0 + val.pow2
           n1   == IF e0 < 0 THEN val.num * Pow2(0 - e0) ELSE val.num
           d1   == IF e0 > 0 THEN val.den * Pow2(e0) ELSE val.den
           hi   == FractionBits(n1 - d1, d1, 15, 0)
           lo   == FractionBits(hi.rest, d1, 16, 0)
           up   == 2 * lo.rest >= d1
           lo2  == IF up THEN (lo.bits + 1) % 65536 ELSE lo.bits
           hi2  == IF up /\ lo.bits = 65535 THEN hi.bits + 1 ELSE hi.bits
       IN IF exp < minExp \/ exp > maxExp
          THEN [err |-> "number out of range", Bytes |-> <<>>]
          ELSE [err |-> "",
                Bytes |-> <<numberMarker,
                            ToByte(FloatToByte(exp, conv) + expBias),
                            ToByte(((hi2 \div 256) % 128) + sign),
                            ToByte(hi2 % 256),
                            ToByte(lo2 \div 256),
                            ToByte(lo2 % 256)>>]

\* the index after the run of digits of text from 0-based index i on
RECURSIVE DigitRun(_, _)
DigitRun(text, i) ==
  IF i < Len(text) /\ isDigit(text[i + 1]) THEN DigitRun(text, i + 1) ELSE i

\* the integer/decimal part of parseNumber: i is the index reached, dots the
\* number of decimal points seen; a second point is the error
RECURSIVE MantissaRun(_, _, _)
MantissaRun(text, i, dots) ==
  IF i < Len(text) /\ (isDigit(text[i + 1]) \/ text[i + 1] = ".")
  THEN IF text[i + 1] = "."
       THEN IF dots > 0 THEN [err |-> TRUE, i |-> i, dots |-> dots]
            ELSE MantissaRun(text, i + 1, dots + 1)
       ELSE MantissaRun(text, i + 1, dots)
  ELSE [err |-> FALSE, i |-> i, dots |-> dots]

\* the digits of a text, its decimal point left out
OnlyDigits(text) == SelectSeq(text, isDigit)

RECURSIVE StripZeros(_)
StripZeros(digits) ==
  IF Len(digits) > 1 /\ Head(digits) = "0" THEN StripZeros(Tail(digits)) ELSE digits

\* parseNumber: res is "nil" (not a number), "err" or "num"
\* (strconv.ParseFloat rounds to a float64; the model keeps the exact value, which
\* is the same for the short literals of the model)
parseNumber(text, conv) ==
  LET nil == [res |-> "nil", err |-> "", Bytes |-> <<>>, consumed |-> 0]
      m   == MantissaRun(text, 0, 0)
      hasDecimal  == m.dots > 0
      hasExponent == m.i < Len(text) /\ text[m.i + 1] \in {"e", "E"}
      s   == IF hasExponent /\ m.i + 1 < Len(text)
                /\ text[m.i + 2] \in {"+", "-"}
             THEN m.i + 2
             ELSE m.i + 1
      i   == IF hasExponent THEN DigitRun(text, s) ELSE m.i
      mant     == Take(text, m.i)
      digits   == StripZeros(OnlyDigits(mant))
      places   == IF hasDecimal THEN m.i - 1 - IndexByte(mant, ".") ELSE 0
      expText  == SubSeq(text, s + 1, i)
      expNeg   == hasExponent /\ s = m.i + 2 /\ text[m.i + 2] = "-"
      wellFormed == digits # <<>> /\ (hasExponent => expText # <<>>)
      e10      == (IF ~hasExponent THEN 0
                   ELSE IF expNeg THEN 0 - DigitsValue(expText)
                   ELSE DigitsValue(expText)) - places
  IN IF m.err THEN [nil EXCEPT !.res = "err", !.err = "multiple decimal points in number"]
     ELSE IF i = 0 THEN nil
     ELSE IF ~wellFormed THEN [nil EXCEPT !.res = "err", !.err = "invalid number format"]
     ELSE IF ~hasDecimal /\ ~hasExponent /\ Len(digits) <= 5
             /\ DigitsValue(digits) <= maxInt
       THEN [res |-> "num", err |-> "", Bytes |-> encodeSmallInt(DigitsValue(digits)),
             consumed |-> i]
     ELSE LET val == [neg |-> FALSE,
                      num |-> DigitsValue(digits) * (IF e10 > 0 THEN Pow10(e10) ELSE 1),
                      den |-> IF e10 < 0 THEN Pow10(0 - e10) ELSE 1,
                      pow2 |-> 0]
              f   == encodeFloat(val, conv)
          IN IF f.err # "" THEN [nil EXCEPT !.res = "err", !.err = f.err]
             ELSE [res |-> "num", err |-> "", Bytes |-> f.Bytes, consumed |-> i]

\* the binary digits of parseBinaryNumber from 0-based index pos on: the value, the
\* index reached, and whether the value passed maxInt
RECURSIVE BinaryRun(_, _, _)
BinaryRun(text, pos, value) ==
  IF pos < Len(text) /\ text[pos + 1] \in {"0", "1"}
  THEN LET v == value * 2 + DigitVal(text[pos + 1]) IN
       IF v > maxInt THEN [tooLarge |-> TRUE, pos |-> pos, value |-> v]
       ELSE BinaryRun(text, pos + 1, v)
  ELSE [tooLarge |-> FALSE, pos |-> pos, value |-> value]

\* parseBinaryNumber
parseBinaryNumber(text) ==
  LET nil   == [res |-> "nil", err |-> "", Bytes |-> <<>>, consumed |-> 0]
      start == SpacesFrom(text, 3)
      run   == BinaryRun(text, start, 0)
  IN IF Len(text) < 4 \/ ~HasPrefix(text, <<"B","I","N">>) THEN nil
     ELSE IF start >= Len(text)
       THEN [nil EXCEPT !.res = "err", !.err = "expected binary digits after BIN"]
     ELSE IF run.tooLarge
       THEN [nil EXCEPT !.res = "err", !.err = "binary number too large"]
     ELSE IF run.pos = start
       THEN [nil EXCEPT !.res = "err", !.err = "expected binary digits after BIN"]
     ELSE [res |-> "num", err |-> "", Bytes |-> encodeSmallInt(run.value),
           consumed |-> run.pos]

(***************************************************************************)
(* The inputs: a program is read line by line, each line drawn from Lines. *)
(***************************************************************************)
NumTexts == {<<"5">>, <<"3","0","0">>}

\* bodies of strings and brackets, which convertLine handles itself
PlainBodies == { <<"\"","H","I","\"">>, <<"(",")">> }

\* bodies of strings with brace escapes
EscapeBodies ==
  { <<"\"","{","T","}","\"">>,
    <<"\"","{","I","N","K"," ","2","}"," ","{","8","0","}","\"">> }

\* bodies convertLine refuses
BadBodies ==
  { <<"\"","{","A","T"," ","5"," ","1","0","}","\"">>,
    <<"\"","{","I","N","K"," ","9","}","\"">>,
    <<"(">>,
    <<")">> }

\* bodies of the scenarios of the documentation and the tests
ScenarioBodies ==
  { <<"S","P","E","C","T","R","U","M">>,
    <<"L","E","T"," ","a","=","B","I","N"," ","1","0","1","0">>,
    <<"P","R","I","N","T"," ","{","A","T"," ","5"," ","1","0","}","\"","X","\"">>,
    <<"P","R","I","N","T"," ","A","T"," ","5",",","1","0",";","\"","X","\"">>,
    <<"V","A","L","$"," ","a","$">>,
    <<"I","N","K","E","Y","$">>,
    <<"A","T","T","R"," ","(","1",",","1",")">> }

Repeat(c, n) == [i \in 1..n |-> c]

MaxLineLength == 1024
MaxStatements == 127

\* a line of MaxStatements + 1 statement separators
ManyColons == <<"5"," ">> \o Repeat(":", MaxStatements + 1)

Lines ==
  {n \o <<" ">> \o b : n \in NumTexts, b \in PlainBodies}
    \cup {<<"5"," ">> \o b : b \in EscapeBodies \cup BadBodies}
    \cup { <<"5"," ","S","P","E","C","T","R","U","M">> }
    \cup { <<"9","9","9","9"," ","\"",")","\"","(",")">> }
    \cup { <<" ","#"," ","c">>, <<" "," ">>, <<"5">>, <<"(",")">>,
           <<"1","0","0","0","0"," ","(",")">> }

\* further lines that reach matchToken, which does not return: nothing of a
\* program is read after such a line, and a program has it as its first line.
\* (The line 5 SPECTRUM, whose conversion depends on the dialect the lines
\* before it have set, is a line of Lines.)
FirstLines ==
  {<<"5"," ">> \o b : b \in ScenarioBodies}
    \cup
  { ManyColons,
    <<"1","0"," ","P","R","I","N","T"," ","\"","H","I","\"">>,
    <<"5"," ","R","E","M"," ","a",":","(","\"","1">>,
    <<"5"," ","(","I","F"," ","a",")">>,
    <<"5"," ","D","E","F"," ","F","N"," ","f","(","x",")","=","(","x",")">> }

(***************************************************************************)
(* The state.                                                              *)
(***************************************************************************)
VARIABLES
  p,          \* the Parser struct
  pc,         \* "idle", "scan" (Parse between lines), "convert" (convertLine),
              \* "match" (the loop of matchToken), "done" (Parse has returned)
  output,     \* Parse: the output buffer
  result,     \* what Parse returned: [bytes, err], err = "" for nil
  warnings,   \* the number of duplicate-line warnings printed
  line,       \* parseLine and convertLine: source (the line as read), lineNum,
              \* lineBuf, text (the line after its number), pos, inString, inRem,
              \* expectKeyword
  mt,         \* matchToken: token (the loop counter), longestMatch, matchedToken,
              \* found
  accepted,   \* history: the input lines parseLine has assembled, in order
  read,       \* history: the input lines the scanner has delivered, in order
  runs,       \* history: the number of calls of Parse on this parser
  call        \* a direct call of a function, as a test makes it: fn (its name),
              \* arg (its arguments) and out (what it returned)

vars == <<p, pc, output, result, warnings, line, mt, accepted, read, runs, call>>

NoLine == [source |-> <<>>, lineNum |-> 0, lineBuf |-> <<>>, text |-> <<>>, pos |-> 0,
           inString |-> FALSE, inRem |-> FALSE, expectKeyword |-> FALSE]

NoMatch == [token |-> 0, longestMatch |-> 0, matchedToken |-> 0, found |-> FALSE]

NoResult == [bytes |-> <<>>, err |-> ""]

NoCall == [fn |-> "", arg |-> <<>>, out |-> <<>>]

\* NewParser with the option WithCaseIndependent(ci)
NewParser(ci) ==
  [caseIndependent |-> ci, is48K |-> -1, lineCount |-> 0, statementCount |-> 0,
   previousLine |-> -1, bracketCount |-> 0, handlingDEFFN |-> FALSE,
   insideDEFFN |-> FALSE, tokenBracket |-> FALSE, inPrint |-> FALSE,
   currentParams |-> <<>>]

\* resetState
resetState(q) ==
  [q EXCEPT !.statementCount = 0, !.bracketCount = 0, !.handlingDEFFN = FALSE,
            !.insideDEFFN = FALSE, !.tokenBracket = FALSE, !.inPrint = FALSE,
            !.currentParams = <<>>]

Init ==
  /\ \E ci \in BOOLEAN : p = NewParser(ci)
  /\ pc = "idle"
  /\ output = <<>>
  /\ result = NoResult
  /\ warnings = 0
  /\ line = NoLine
  /\ mt = NoMatch
  /\ accepted = <<>>
  /\ read = <<>>
  /\ runs = 0
  /\ call = NoCall

(***************************************************************************)
(* Parse and parseLine.                                                    *)
(***************************************************************************)
\* a faulty variant of ErrorBytes, which C2 must tell apart: the partial output
\* is returned beside the error
ErrorBytesPartial(out) == out

\* the bytes Parse returns beside an error: nil
ErrorBytes(out) == <<>>

\* return nil, err from Parse (an error of parseLine or convertLine included)
ParseFail(e, q) ==
  /\ pc' = "done"
  /\ p' = q
  /\ result' = [bytes |-> ErrorBytes(output), err |-> e]
  /\ line' = NoLine
  /\ mt' = NoMatch
  /\ UNCHANGED <<output, warnings, accepted>>

\* the start of Parse
ParseStart ==
  /\ pc = "idle"
  /\ p' = [p EXCEPT !.lineCount = 0, !.previousLine = -1]
  /\ output' = <<>>
  /\ pc' = "scan"
  /\ runs' = runs + 1
  /\ UNCHANGED <<result, warnings, line, mt, accepted, read, call>>

\* extractLineNumber: ok = FALSE is "line must start with a number"
extractLineNumber(l) ==
  LET t == TrimSpace(l)
      i == DigitRun(t, 0)
  IN [ok |-> i > 0, num |-> DigitsValue(Take(t, i)), rest |-> TrimSpace(Drop(t, i))]

\* a faulty variant of SkipLine, which C20 must tell apart: only a blank line is
\* skipped
SkipLineBlank(l) == TrimSpace(l) = <<>>

\* whether Parse skips the line: blank, or a # comment
SkipLine(l) == TrimSpace(l) = <<>> \/ HasPrefix(TrimSpace(l), <<"#">>)

\* One turn of the scanner loop of Parse, on input line l, up to the call of
\* convertLine: the length check, the skip, and the start of parseLine.
ScanLine(l) ==
  /\ pc = "scan"
  /\ p.lineCount < MaxLines
  /\ read' = Append(read, l)
  /\ UNCHANGED <<runs, call>>
  /\ LET q == [p EXCEPT !.lineCount = p.lineCount + 1]
         x == extractLineNumber(l)
     IN IF Len(l) > MaxLineLength THEN ParseFail("exceeds maximum length", q)
        ELSE IF SkipLine(l)
          THEN /\ p' = q
               /\ UNCHANGED <<pc, output, result, warnings, line, mt, accepted>>
        ELSE IF ~x.ok THEN ParseFail("line must start with a number", q)
        ELSE IF x.num < 0 \/ x.num > 9999
          THEN ParseFail("line number must be between 0 and 9999", q)
        ELSE IF x.rest = <<>> THEN ParseFail("line contains no statements", q)
        ELSE /\ p' = resetState(q)
             /\ line' = [source |-> l, lineNum |-> x.num,
                         lineBuf |-> <<ToByte(x.num % 256), ToByte(x.num \div 256), 0, 0>>,
                         text |-> x.rest, pos |-> 0, inString |-> FALSE,
                         inRem |-> FALSE, expectKeyword |-> TRUE]
             /\ pc' = "convert"
             /\ UNCHANGED <<output, result, warnings, mt, accepted>>

\* the scanner reaches the end of the input: Parse returns the output
ScanEOF ==
  /\ pc = "scan"
  /\ pc' = "done"
  /\ result' = [bytes |-> output, err |-> ""]
  /\ UNCHANGED <<p, output, warnings, line, mt, accepted, read, runs, call>>

\* a faulty variant of LineLength, which C4 must tell apart: the two bytes of the
\* length field are counted too
LineLengthWithField(lineBytes) == (Len(lineBytes) - 2) % 65536

\* the length field of a line record: uint16(len(lineBytes) - lengthPos - 2)
LineLength(lineBytes) == (Len(lineBytes) - 2 - 2) % 65536

\* the record parseLine returns for the converted buffer
LineRecord(lineBuf) ==
  LET lineBytes == lineBuf \o <<13>>
      length    == LineLength(lineBytes)
  IN [lineBytes EXCEPT ![3] = ToByte(length % 256), ![4] = ToByte(length \div 256)]

\* a faulty variant of OrderError, which C3 must tell apart: an equal number is
\* refused too
OrderErrorOnEqual(lineNum, previousLine) == previousLine >= 0 /\ lineNum <= previousLine

\* the line-number check of Parse: the line is refused
OrderError(lineNum, previousLine) == previousLine >= 0 /\ lineNum < previousLine

\* convertLine has returned nil: the end of parseLine, and in Parse the order
\* check and the write to the output buffer
LineEnd ==
  /\ pc = "convert"
  /\ line.pos >= Len(line.text)
  /\ UNCHANGED <<read, runs, call>>
  /\ IF p.statementCount > MaxStatements THEN ParseFail("too many statements", p)
     ELSE IF p.bracketCount # 0 THEN ParseFail("mismatched brackets", p)
     ELSE IF OrderError(line.lineNum, p.previousLine)
       THEN /\ pc' = "done"
            /\ result' = [bytes |-> ErrorBytes(output),
                          err |-> "number is smaller than previous line number"]
            /\ accepted' = Append(accepted, line.source)
            /\ line' = NoLine
            /\ UNCHANGED <<p, output, warnings, mt>>
     ELSE /\ warnings' = IF p.previousLine >= 0 /\ line.lineNum = p.previousLine
                         THEN warnings + 1 ELSE warnings
          /\ p' = [p EXCEPT !.previousLine = line.lineNum]
          /\ output' = output \o LineRecord(line.lineBuf)
          /\ accepted' = Append(accepted, line.source)
          /\ line' = NoLine
          /\ pc' = "scan"
          /\ UNCHANGED <<result, mt>>

(***************************************************************************)
(* convertLine.                                                            *)
(***************************************************************************)
\* the loop of convertLine goes on with parser q and locals ln
Continue(q, ln) ==
  /\ p' = q
  /\ line' = ln
  /\ pc' = "convert"
  /\ mt' = NoMatch
  /\ UNCHANGED <<output, result, warnings, accepted>>

\* the parser after expandSequence returned m
AfterSequence(q, m) == [q EXCEPT !.is48K = m.is48K, !.currentParams = m.currentParams]

\* after REM: the rest of the line is copied, its sequences expanded; m is the
\* outcome of expandSequence at pos
RECURSIVE RemCopy(_, _, _, _, _, _)
RemCopyStep(txt, pos, out, m, inPrint) ==
  IF m.res = "err"
  THEN [err |-> m.err, out |-> out, pos |-> pos, is48K |-> m.is48K,
        currentParams |-> m.currentParams]
  ELSE IF m.res = "match"
  THEN RemCopy(txt, pos + m.Length, out \o m.Bytes, m.is48K, m.currentParams, inPrint)
  ELSE RemCopy(txt, pos + 1, Append(out, Ord(txt[pos + 1])), m.is48K, m.currentParams,
               inPrint)

RemCopy(txt, pos, out, is48K, params, inPrint) ==
  IF pos >= Len(txt)
  THEN [err |-> "", out |-> out, pos |-> pos, is48K |-> is48K, currentParams |-> params]
  ELSE RemCopyStep(txt, pos, out,
                   expandSequence(Drop(txt, pos), FALSE, is48K, params, inPrint), inPrint)

\* convertLine after expandSequence returned m at position sp, inside a string (the
\* error is wrapped "in string") or at the end of an iteration ("expanding
\* sequence"); a plain character c is copied
CopySequence(m, sp, c, plainKeyword) ==
  IF m.res = "err" THEN ParseFail(m.err, AfterSequence(p, m))
  ELSE IF m.res = "match"
  THEN Continue(AfterSequence(p, m),
                [line EXCEPT !.lineBuf = line.lineBuf \o m.Bytes,
                             !.pos = sp + m.Length])
  ELSE Continue(AfterSequence(p, m),
                [line EXCEPT !.lineBuf = Append(line.lineBuf, Ord(c)),
                             !.pos = sp + 1,
                             !.expectKeyword = plainKeyword])

\* convertLine on an opening bracket
OpenBracket(sp) ==
  Continue([p EXCEPT !.bracketCount = p.bracketCount + 1,
                     !.insideDEFFN = p.insideDEFFN \/ p.handlingDEFFN,
                     !.tokenBracket = TRUE],
           [line EXCEPT !.lineBuf = Append(line.lineBuf, 40), !.pos = sp + 1])

\* a faulty variant of CloseBracket, which C23 must tell apart: a closing bracket
\* without an open one is let through
CloseBracketUnchecked(sp) ==
  Continue([p EXCEPT !.bracketCount = p.bracketCount - 1, !.tokenBracket = FALSE],
           [line EXCEPT !.lineBuf = Append(line.lineBuf, 41), !.pos = sp + 1])

\* convertLine on a closing bracket
CloseBracket(sp) ==
  IF p.bracketCount - 1 < 0
  THEN ParseFail("too many closing brackets",
                 [p EXCEPT !.bracketCount = p.bracketCount - 1])
  ELSE IF p.handlingDEFFN /\ p.insideDEFFN
  THEN Continue([p EXCEPT !.bracketCount = p.bracketCount - 1,
                          !.insideDEFFN = FALSE, !.handlingDEFFN = FALSE,
                          !.tokenBracket = FALSE],
                [line EXCEPT !.lineBuf = line.lineBuf \o <<14, 0, 0, 0, 0, 0, 41>>,
                             !.pos = sp + 1])
  ELSE Continue([p EXCEPT !.bracketCount = p.bracketCount - 1,
                          !.tokenBracket = FALSE],
                [line EXCEPT !.lineBuf = Append(line.lineBuf, 41), !.pos = sp + 1])

\* convertLine on a quote: the string state is switched to inString
Quote(sp, inString) ==
  Continue(p, [line EXCEPT !.inString = inString,
                           !.lineBuf = Append(line.lineBuf, 34),
                           !.pos = sp + 1])

\* An iteration of the loop of convertLine, from its top to the call of matchToken:
\* the skip of spaces, the REM and string states, quotes and brackets.
ConvertLineStep ==
  /\ pc = "convert"
  /\ line.pos < Len(line.text)
  /\ UNCHANGED <<read, runs, call>>
  /\ \E sp \in {IF ~line.inString /\ ~line.inRem THEN SpacesFrom(line.text, line.pos)
                ELSE line.pos} :
     IF sp >= Len(line.text) THEN Continue(p, [line EXCEPT !.pos = sp])
     ELSE IF line.inRem
     THEN \E r \in {RemCopy(line.text, sp, line.lineBuf, p.is48K, p.currentParams,
                            p.inPrint)} :
          IF r.err # "" THEN ParseFail(r.err, AfterSequence(p, r))
          ELSE Continue(AfterSequence(p, r), [line EXCEPT !.lineBuf = r.out, !.pos = r.pos])
     ELSE IF line.inString
     THEN IF line.text[sp + 1] = "\"" THEN Quote(sp, FALSE)
          ELSE \E m \in {expandSequence(Drop(line.text, sp), FALSE, p.is48K,
                                        p.currentParams, p.inPrint)} :
               CopySequence(m, sp, line.text[sp + 1], line.expectKeyword)
     ELSE IF line.text[sp + 1] = "\"" THEN Quote(sp, TRUE)
     ELSE IF line.text[sp + 1] = "(" THEN OpenBracket(sp)
     ELSE IF line.text[sp + 1] = ")" THEN CloseBracket(sp)
     ELSE \* matchToken(text[pos:], expectKeyword) is called
          /\ pc' = "match"
          /\ line' = [line EXCEPT !.pos = sp]
          /\ mt' = [token |-> FirstToken, longestMatch |-> 0, matchedToken |-> 0,
                    found |-> FALSE]
          /\ UNCHANGED <<p, output, result, warnings, accepted>>

\* convertLine on the token m that matchToken returned
TokenMatched(m, q) ==
  IF m.Value = 58                                              \* ':'
  THEN Continue([q EXCEPT !.statementCount = q.statementCount + 1,
                          !.inPrint = FALSE, !.currentParams = <<>>],
                [line EXCEPT !.expectKeyword = TRUE, !.pos = line.pos + 1])
  ELSE Continue([q EXCEPT !.handlingDEFFN = q.handlingDEFFN \/ m.Value = 206,
                          !.inPrint = q.inPrint \/ m.Value \in {245, 224}],
                [line EXCEPT !.inRem = line.inRem \/ m.Value = 234,
                             !.lineBuf = Append(line.lineBuf, m.Value),
                             !.pos = line.pos + m.Length,
                             !.expectKeyword = FALSE])

\* convertLine on the outcome n of parseNumber or parseBinaryNumber, when it is
\* an error or a number
NumberParsed(n) ==
  IF n.res = "err" THEN ParseFail(n.err, p)
  ELSE Continue(p, [line EXCEPT !.lineBuf = line.lineBuf \o n.Bytes,
                                !.pos = line.pos + n.consumed,
                                !.expectKeyword = FALSE])

\* The rest of an iteration of convertLine once the loop of matchToken has ended
\* with the locals st: the result of matchToken, the special tokens, and, without a
\* match, the number, the binary number, the sequence or the plain character.
AfterMatchToken(st, conv) ==
  \E rest \in {Drop(line.text, line.pos)} :
  \E m \in {MatchTokenResult(st, line.expectKeyword, p)} :
    IF m.res = "err" THEN ParseFail(m.err, p)
    ELSE IF m.res = "match" THEN TokenMatched(m, [p EXCEPT !.is48K = m.is48K])
    ELSE \E n \in {parseNumber(rest, conv)} :
      IF n.res # "nil" THEN NumberParsed(n)
      ELSE \E b \in {parseBinaryNumber(rest)} :
        IF b.res # "nil" THEN NumberParsed(b)
        ELSE \E s \in {expandSequence(rest, TRUE, p.is48K, p.currentParams, p.inPrint)} :
          CopySequence(s, line.pos, rest[1],
                       line.expectKeyword /\ rest[1] = " ")

\* the conversions byte(x) of a float a build may implement (see FloatToByte)
FloatConv == {"wrap", "sat"}

\* The loop of matchToken.  While the loop condition holds, a step is a pass of
\* the loop; when it fails, matchToken returns and convertLine goes on.
MatchTokenPass ==
  /\ pc = "match"
  /\ UNCHANGED <<read, runs, call>>
  /\ IF LoopCond(mt.token)
     THEN /\ \E txt \in {Drop(line.text, line.pos)} :
             \E upper \in {IF p.caseIndependent THEN ToUpper(txt) ELSE txt} :
               mt' = MatchTokenLoop(mt, PassLength(mt.token), txt, upper,
                                    p.caseIndependent)
          /\ UNCHANGED <<p, pc, output, result, warnings, line, accepted>>
     ELSE \E conv \in FloatConv : AfterMatchToken(mt, conv)

\* the lines the scanner can deliver next
NextLines == IF read = <<>> THEN Lines \cup FirstLines ELSE Lines

Next ==
  \/ ParseStart
  \/ \E l \in NextLines : ScanLine(l)
  \/ ScanEOF
  \/ ConvertLineStep
  \/ LineEnd
  \/ MatchTokenPass

Spec == Init /\ [][Next]_vars

\* Parse is a sequential program: a step that can be taken is taken
FairSpec == Spec /\ WF_vars(Next)

(***************************************************************************)
(* Direct calls.  The functions of the package are also called one at a    *)
(* time on a new parser, as the tests of the package call them: a call     *)
(* records its arguments and what it returned.                             *)
(***************************************************************************)
\* a call is made on the parser as NewParser left it, and is the only call
CanCall == pc = "idle" /\ call = NoCall

\* the call fn(arg) has returned out; nothing else changes
Called(fn, arg, out) ==
  /\ call' = [fn |-> fn, arg |-> arg, out |-> out]
  /\ UNCHANGED <<p, pc, output, result, warnings, line, mt, accepted, read, runs>>

\* the arguments of encodeSmallInt: the small-integer range and the values next
\* to its ends
IntArgs == (minInt - 1)..(maxInt + 1)

\* encodeSmallInt(n)
CallEncodeSmallInt ==
  /\ CanCall
  /\ \E n \in IntArgs : Called("encodeSmallInt", n, encodeSmallInt(n))

\* texts of lines after the line number, as convertLine holds them: the inputs
\* of the matchToken test and a function applied to a variable
WordTexts ==
  { <<"P","R","I","N","T">>,
    <<"p","r","i","n","t">>,
    <<"I","N","T"," ","x">>,
    <<"V","A","L","$"," ","a","$">> }

\* matchToken(text[pos:], wantKeyword), as convertLine calls it at position pos
\* of text.  The call does not return (see MatchTokenPass): out holds the locals
\* of the scan when it has gone over the candidates 0xA3..0xFF.
CallMatchToken ==
  /\ CanCall
  /\ \E text \in WordTexts, wantKeyword \in BOOLEAN :
     \E pos \in 0..(Len(text) - 1) :
     \E txt \in {Drop(text, pos)} :
     \E upper \in {IF p.caseIndependent THEN ToUpper(txt) ELSE txt} :
       Called("matchToken",
              [text |-> text, pos |-> pos, wantKeyword |-> wantKeyword],
              MatchTokenLoop([token |-> FirstToken, longestMatch |-> 0,
                              matchedToken |-> 0, found |-> FALSE],
                             PassLength(FirstToken), txt, upper, p.caseIndependent))

\* the inputs of the parseNumber test, and texts as convertLine hands them to
\* parseNumber where no token matched: the names of variables
NumberArgs ==
  { <<"1","2","3">>, <<"-","4","2">>, <<"0">>, <<"1",".","2",".","3">>,
    <<"a","b","c">>, <<"-","6","5","5","3","5">>, <<"1","e","2">>,
    <<"e">>, <<"E","1">>, <<"e","=","1">>, <<"x","1">>, <<"$">>, <<>> }

\* parseNumber(text)
CallParseNumber ==
  /\ CanCall
  /\ \E text \in NumberArgs, conv \in FloatConv :
       Called("parseNumber", text, parseNumber(text, conv))

\* the inputs of the parseBinaryNumber test, and some more texts after BIN
BinaryArgs ==
  { <<"B","I","N"," ","1","0","1","0">>,
    <<"B","I","N"," ">>,
    <<"B","I","N"," ","1","0","2">>,
    <<"B","I","N"," ">> \o Repeat("1", 19),
    <<"B","I","N","A","R","Y">>,
    <<"B","I","N">>,
    <<"B","I","N","1">>,
    <<"B","I","N"," ","x">>,
    <<"a","b","c","d">> }

\* parseBinaryNumber(text)
CallParseBinaryNumber ==
  /\ CanCall
  /\ \E text \in BinaryArgs :
       Called("parseBinaryNumber", text, parseBinaryNumber(text))

\* the inputs of the expandSequence test
SequenceTests ==
  { <<"{","(","C",")","}">>, <<"{","A","}">>, <<"{","T","}">>,
    <<"{","+","1","}">>, <<"{","-","1","}">>, <<"{","7","F","}">>,
    <<"{","A","T"," ","1","0"," ","2","0","}"," "," ">>,
    <<"{","I","N","V","A","L","I","D","}">>,
    <<"{","A","T"," ","0"," ","0","}">>,
    <<"{","U","N","C","L","O","S","E","D">> }

\* the display texts of the block graphics 0x80..0x8F of the token table
BlockTexts == {TokenMap[b].Text : b \in 128..143}

\* brace sequences of a command name and parameters
ControlTexts ==
  { <<"{","I","N","K","}">>, <<"{","I","N","K"," ","2","}">>,
    <<"{","I","N","K"," ","1"," ","2","}">>, <<"{","i","n","k"," ","x","}">>,
    <<"{","T","A","B"," ","1"," ","2","}">>, <<"{","A","T"," ","5","}">>,
    <<"{","A","T"," ","1"," ","2"," ","3","}">>, <<"{","O","V","E","R"," ","1","}">>,
    <<"{","F","O","O","}">>, <<"{","F","O","O"," ","1","}">>,
    <<"{","F","O","O"," ","1"," ","2","}">>, <<"{","F","O","O"," ","x","}">>,
    <<"{","F","O","O"," ","x"," ","1","}">>,
    <<"{","I","N","K"," ","x"," ","1","}">> }

\* the parameters of the control codes: the ends of their ranges and the
\* values next to them
ParamTexts ==
  { <<"-","1">>, <<"0">>, <<"1">>, <<"2">>, <<"7">>, <<"8">>, <<"2","3">>,
    <<"2","4">>, <<"3","1">>, <<"3","2">> }

\* the command names of getControlBytes
CommandTexts ==
  { <<"A","T">>, <<"T","A","B">>, <<"I","N","K">>, <<"P","A","P","E","R">>,
    <<"F","L","A","S","H">>, <<"B","R","I","G","H","T">>,
    <<"I","N","V","E","R","S","E">>, <<"O","V","E","R">> }

\* the control sequences of a command and one parameter, and of AT and two
RangeTexts ==
  {<<"{">> \o c \o <<" ">> \o a \o <<"}">> : c \in CommandTexts, a \in ParamTexts}
    \cup {<<"{","A","T"," ">> \o a \o <<" ">> \o b \o <<"}">> :
            a \in ParamTexts, b \in ParamTexts}

\* expandSequence(text, stripSpaces) on a new parser, whose inPrint flag the test
\* sets before some calls
CallExpandSequence ==
  /\ CanCall
  /\ \E text \in SequenceTests \cup BlockTexts \cup ControlTexts \cup RangeTexts :
     \E stripSpaces \in BOOLEAN, inPrint \in BOOLEAN :
       Called("expandSequence",
              [text |-> text, stripSpaces |-> stripSpaces, inPrint |-> inPrint],
              expandSequence(text, stripSpaces, p.is48K, p.currentParams, inPrint))

\* the arguments of encodeFloat: the values num / den * 2^pow2 with exponents
\* around the ends of the range minExp..maxExp and around zero
FloatArgs ==
  [neg : BOOLEAN, num : {0, 1, 3}, den : {1, 2},
   pow2 : ((minExp - 2)..(minExp + 2)) \cup (-1..1) \cup ((maxExp - 1)..(maxExp + 2))]

\* encodeFloat(val), in a build with the conversion conv of a float to a byte
CallEncodeFloat ==
  /\ CanCall
  /\ \E val \in FloatArgs, conv \in FloatConv :
       Called("encodeFloat", [val |-> val, conv |-> conv], encodeFloat(val, conv))

(***************************************************************************)
(* tap2tzx: the blocks of a configuration are laid out twice, by a dry run *)
(* that computes the position of every block (calculateBlockPositions) and *)
(* by the pass that writes them (processConfiguredBlocks).                 *)
(***************************************************************************)

\* the TAP files a configuration names, by their bytes: "one.tap" holds one TAP
\* block (a 2-byte little-endian length and that many bytes), "two.tap" two,
\* "none.tap" none; any other name is a file that does not exist
TapFiles(name) ==
  CASE name = "one.tap" -> <<1, 0, 255>>
    [] name = "two.tap" -> <<2, 0, 0, 0, 1, 0, 255>>
    [] name = "none.tap" -> <<>>
    [] OTHER -> <<-1>>

\* the blocks of the configurations: blockConfig, a field left out in the YAML
\* text having its zero value
blockConfig ==
  LET none == [File |-> "", Group |-> "", Desc |-> "", JumpTo |-> "", ID |-> "",
               LoopStart |-> 0, LoopEnd |-> FALSE]
  IN { [none EXCEPT !.File = "one.tap", !.ID = "a"],
       [none EXCEPT !.File = "two.tap"],
       [none EXCEPT !.File = "none.tap", !.ID = "b"],
       [none EXCEPT !.File = "gone.tap"],
       [none EXCEPT !.Group = "g", !.Desc = "de", !.ID = "b"],
       [none EXCEPT !.JumpTo = "a"],
       [none EXCEPT !.JumpTo = "b", !.ID = "a"],
       [none EXCEPT !.LoopStart = 2, !.ID = "a"],
       [none EXCEPT !.LoopEnd = TRUE, !.File = "one.tap"] }

\* the configurations: tzxConfig, of one or two blocks
tzxConfig ==
  [Metadata : [Title : {"", "t"}, Author : {""}, Year : {"", "1982"}],
   Hardware : [K128Only : BOOLEAN, UseAY : {FALSE}, UsePaging : {FALSE},
               Model : {"", "48k"}],
   Blocks : {<<b>> : b \in blockConfig}
              \cup {<<b, c>> : b \in blockConfig, c \in blockConfig}]

\* calculateBlockSize(block): the size and the error
calculateBlockSize(block) ==
  LET group == IF block.Group # "" THEN 2 + Len(block.Group) ELSE 0
      desc  == IF block.Desc # "" THEN 2 + Len(block.Desc) ELSE 0
      jump  == IF block.JumpTo # "" THEN 3 ELSE 0
      start == IF block.LoopStart > 0 THEN 3 ELSE 0
      end   == IF block.LoopEnd THEN 1 ELSE 0
  IN IF block.File # "" /\ TapFiles(block.File) = <<-1>>
     THEN [size |-> 0, err |-> "getting file size"]
     ELSE [size |-> group + desc + jump + start + end
                      + (IF block.File # "" THEN 5 + Len(TapFiles(block.File)) ELSE 0),
           err |-> ""]

\* the position after the TZX header, the archive info and the hardware info,
\* as both passes compute it
HeaderSize(config) ==
  LET m == config.Metadata
      h == config.Hardware
      archiveSize ==
        IF m.Title # "" \/ m.Author # "" \/ m.Year # ""
        THEN 3 + (IF m.Title # "" THEN 2 + Len(m.Title) ELSE 0)
               + (IF m.Author # "" THEN 2 + Len(m.Author) ELSE 0)
               + (IF m.Year # "" THEN 2 + Len(m.Year) ELSE 0)
        ELSE 0
      hardwareSize ==
        IF h.K128Only \/ h.UseAY \/ h.Model # ""
        THEN 2 + (IF h.K128Only THEN 6 ELSE 0) + (IF h.UseAY THEN 3 ELSE 0)
               + (IF h.Model # "" THEN 3 ELSE 0)
        ELSE 0
  IN 10 + archiveSize + hardwareSize

\* positions[id] = pos, in the map from identifiers to positions
SetPosition(positions, id, pos) ==
  [x \in DOMAIN positions \cup {id} |-> IF x = id THEN pos ELSE positions[x]]

\* the loop of calculateBlockPositions from block i on: starts holds the value
\* of currentPos at the top of each turn made
RECURSIVE PositionsLoop(_, _, _, _, _)
PositionsLoop(blocks, i, positions, currentPos, starts) ==
  IF i > Len(blocks) THEN [positions |-> positions, starts |-> starts, err |-> ""]
  ELSE LET block == blocks[i]
           named == IF block.ID # "" THEN SetPosition(positions, block.ID, currentPos)
                    ELSE positions
           s     == calculateBlockSize(block)
       IN IF s.err # ""
          THEN [positions |-> << >>, starts |-> Append(starts, currentPos),
                err |-> "calculating block size"]
          ELSE PositionsLoop(blocks, i + 1, named, currentPos + s.size,
                             Append(starts, currentPos))

calculateBlockPositions(config) ==
  PositionsLoop(config.Blocks, 1, << >>, HeaderSize(config), <<>>)

\* readTapBlock(r) on the bytes r that are left of the file
readTapBlock(r) ==
  IF r = <<>> THEN [data |-> <<>>, rest |-> <<>>, err |-> "EOF"]
  ELSE IF Len(r) < 2 THEN [data |-> <<>>, rest |-> <<>>, err |-> "reading block length"]
  ELSE LET length == r[1] + 256 * r[2]
       IN IF Len(r) - 2 < length
          THEN [data |-> <<>>, rest |-> <<>>, err |-> "reading block data"]
          ELSE [data |-> SubSeq(r, 3, 2 + length),
                rest |-> SubSeq(r, 3 + length, Len(r)), err |-> ""]

\* the loop of processConfigBlock over the TAP blocks of a file: each is written
\* by writeStandardSpeedBlock as 5 bytes and its data
RECURSIVE FileLoop(_, _)
FileLoop(r, currentPos) ==
  LET b == readTapBlock(r)
  IN IF b.err = "EOF" THEN [pos |-> currentPos, err |-> ""]
     ELSE IF b.err # "" THEN [pos |-> currentPos, err |-> "reading TAP block"]
     ELSE FileLoop(b.rest, currentPos + 5 + Len(b.data))

\* processConfigBlock(w, block, positions, &currentPos): the value it leaves in
\* currentPos, the offset of the jump it wrote (none: 0) and the error
processConfigBlock(block, positions, currentPos) ==
  LET afterDesc == currentPos
                     + (IF block.Group # "" THEN 2 + Len(block.Group) ELSE 0)
                     + (IF block.Desc # "" THEN 2 + Len(block.Desc) ELSE 0)
      found     == block.JumpTo \in DOMAIN positions
      offset    == IF block.JumpTo # "" /\ found
                   THEN positions[block.JumpTo] - (afterDesc + 3) ELSE 0
      afterLoop == afterDesc + (IF block.JumpTo # "" THEN 3 ELSE 0)
                     + (IF block.LoopStart > 0 THEN 3 ELSE 0)
      file      == IF block.File # "" THEN FileLoop(TapFiles(block.File), afterLoop)
                   ELSE [pos |-> afterLoop, err |-> ""]
  IN IF block.JumpTo # "" /\ ~found
     THEN [pos |-> afterDesc, offset |-> 0, err |-> "jump target not found"]
     ELSE IF offset > 32767 \/ offset < -32768
     THEN [pos |-> afterDesc, offset |-> 0, err |-> "jump offset out of range"]
     ELSE IF file.err # ""
     THEN [pos |-> file.pos, offset |-> offset, err |-> file.err]
     ELSE [pos |-> file.pos + (IF block.LoopEnd THEN 1 ELSE 0),
           offset |-> offset, err |-> ""]

\* the loop of processConfiguredBlocks from block i on: starts holds the value
\* of currentPos at each call of processConfigBlock, offsets the jumps written
RECURSIVE BlocksLoop(_, _, _, _, _, _)
BlocksLoop(blocks, i, positions, currentPos, starts, offsets) ==
  IF i > Len(blocks) THEN [starts |-> starts, offsets |-> offsets, err |-> ""]
  ELSE LET b == processConfigBlock(blocks[i], positions, currentPos)
       IN IF b.err # ""
          THEN [starts |-> Append(starts, currentPos), offsets |-> offsets,
                err |-> "processing block"]
          ELSE BlocksLoop(blocks, i + 1, positions, b.pos, Append(starts, currentPos),
                          Append(offsets, b.offset))

\* processConfiguredBlocks(w, config): dry holds what the first pass computed,
\* run what the second did
processConfiguredBlocks(config) ==
  LET dry == calculateBlockPositions(config)
  IN IF dry.err # ""
     THEN [dry |-> dry, run |-> [starts |-> <<>>, offsets |-> <<>>, err |-> ""],
           err |-> "calculating positions"]
     ELSE LET run == BlocksLoop(config.Blocks, 1, dry.positions, HeaderSize(config),
                                <<>>, <<>>)
          IN [dry |-> dry, run |-> run, err |-> run.err]

\* processConfiguredBlocks(w, config), as main calls it on a configuration
CallProcessConfiguredBlocks ==
  /\ CanCall
  /\ \E config \in tzxConfig :
       Called("processConfiguredBlocks", config, processConfiguredBlocks(config))

(***************************************************************************)
(* The container writer (package tap): a program is written as a header    *)
(* block and a data block, each ending in a checksum, which the loader     *)
(* verifies.                                                               *)
(***************************************************************************)
HeaderLength == 19
HeaderFlag   == 0
DataFlag     == 255
Program      == 0

\* binary.LittleEndian.PutUint16(buf, v)
PutUint16(v) == <<v % 256, (v \div 256) % 256>>

\* calculateChecksum(data): the exclusive or of all bytes
RECURSIVE calculateChecksum(_)
calculateChecksum(data) ==
  IF data = <<>> THEN 0
  ELSE BitXor(calculateChecksum(SubSeq(data, 1, Len(data) - 1)), data[Len(data)])

\* header.Filename after the copy and the padding with spaces
PaddedName(filename) ==
  [i \in 1..10 |-> IF i <= Len(filename) THEN Ord(filename[i]) ELSE 32]

\* createHeaderBlock(blockType, filename, dataLength, param1, param2)
createHeaderBlock(blockType, filename, dataLength, param1, param2) ==
  LET checksumData == <<HeaderFlag, blockType>> \o PaddedName(filename)
                        \o PutUint16(dataLength) \o PutUint16(param1)
                        \o PutUint16(param2)
  IN PutUint16(HeaderLength) \o checksumData \o <<calculateChecksum(checksumData)>>

\* createDataBlock whose checksum leaves the flag byte out
createDataBlockNoFlag(data) ==
  PutUint16((Len(data) + 2) % 65536) \o <<DataFlag>> \o data
    \o <<calculateChecksum(data)>>

\* createDataBlock(data)
createDataBlock(data) ==
  LET dataBlock == PutUint16((Len(data) + 2) % 65536) \o <<DataFlag>> \o data
  IN dataBlock \o <<calculateChecksum(SubSeq(dataBlock, 3, Len(dataBlock)))>>

\* verifyChecksum(data, checksum) of the loader
verifyChecksum(data, checksum) ==
  calculateChecksum(data) = checksum

\* the programs written: their names (none, short, of 10 and of 11
\* characters), their bytes and their autostart lines
TapArgs ==
  [name : { <<>>, <<"a">>, <<"a","b","c","d","e","f","g","h","i","j">>,
            <<"a","b","c","d","e","f","g","h","i","j","k">> },
   data : {<<>>} \cup {<<a>> : a \in {0, 1, 128, 255}}
            \cup {<<a, b>> : a \in {0, 1, 128, 255}, b \in {0, 1, 128, 255}},
   autostart : {0, 10, 32768}]

\* WriteBasicToTAP(w, name, data, autostart): the two blocks written to w
CallWriteBasicToTAP ==
  /\ CanCall
  /\ \E a \in TapArgs :
       Called("WriteBasicToTAP", a,
              [header |-> createHeaderBlock(Program, a.name, Len(a.data) % 65536,
                                            a.autostart, Len(a.data) % 65536),
               data   |-> createDataBlock(a.data)])

UnitNext ==
  \/ CallEncodeSmallInt
  \/ CallMatchToken
  \/ CallParseNumber
  \/ CallParseBinaryNumber
  \/ CallExpandSequence
  \/ CallEncodeFloat
  \/ CallProcessConfiguredBlocks
  \/ CallWriteBasicToTAP

UnitSpec == Init /\ [][UnitNext]_vars

(***************************************************************************)
(* A parser used again: Parse is called on a parser that has already       *)
(* converted a program.                                                    *)
(***************************************************************************)
\* the calls of Parse on one parser
MaxRuns == 2

\* the lines of the programs given to a parser that is used again
ReuseLines ==
  { <<"5"," ","\"","{","T","}","\"">>,
    <<"5"," ","\"","H","I","\"">>,
    <<"3","0","0"," ","(",")">>,
    <<"5"," ","S","P","E","C","T","R","U","M">> }

\* Parse is called again once it has returned: the scanner and the output
\* buffer are new, lineCount and previousLine are assigned, and the rest of the
\* parser is left as the last call left it
ParseAgain ==
  /\ pc = "done"
  /\ runs < MaxRuns
  /\ p' = [p EXCEPT !.lineCount = 0, !.previousLine = -1]
  /\ output' = <<>>
  /\ pc' = "scan"
  /\ runs' = runs + 1
  /\ read' = <<>>
  /\ accepted' = <<>>
  /\ UNCHANGED <<result, warnings, line, mt, call>>

ReuseNext ==
  \/ ParseStart
  \/ \E l \in ReuseLines : ScanLine(l)
  \/ ScanEOF
  \/ ConvertLineStep
  \/ LineEnd
  \/ MatchTokenPass
  \/ ParseAgain

ReuseSpec == Init /\ [][ReuseNext]_vars

(***************************************************************************)
(* The claims.  The histories read and accepted name the program: the      *)
(* lines delivered so far and, of these, the lines parseLine assembled.    *)
(***************************************************************************)
OrderMessage == "number is smaller than previous line number"

NotSkipped(l) == ~SkipLine(l)

\* the lines of a program that Parse does not skip
NonSkipped(lines) == SelectSeq(lines, NotSkipped)

\* the line numbers of the assembled lines, in order
LineNumbers == [i \in 1..Len(accepted) |-> extractLineNumber(accepted[i]).num]

\* some assembled line has a smaller number than the assembled line before it
Decreasing == \E i \in 2..Len(accepted) : LineNumbers[i] < LineNumbers[i - 1]

\* the number of assembled lines with the number of the assembled line before
Duplicates == Cardinality({i \in 2..Len(accepted) : LineNumbers[i] = LineNumbers[i - 1]})

\* the assembled lines whose records Parse has written to the output
Written ==
  IF result.err = OrderMessage THEN Take(accepted, Len(accepted) - 1) ELSE accepted

\* the walk over a byte stream by the length fields: the records it meets; bytes
\* that are no whole record are left as a last piece
RecordEnd(out) == 4 + out[3] + 256 * out[4]

RECURSIVE Records(_)
Records(out) ==
  IF out = <<>> THEN <<>>
  ELSE IF Len(out) < 4 \/ RecordEnd(out) > Len(out) THEN <<out>>
  ELSE <<Take(out, RecordEnd(out))>> \o Records(Drop(out, RecordEnd(out)))

\* rec is the record of input line l: number, length of what follows, terminator
RecordOf(rec, l) ==
  /\ Len(rec) >= 5
  /\ rec[1] + 256 * rec[2] = extractLineNumber(l).num
  /\ rec[3] + 256 * rec[4] = Len(rec) - 4
  /\ rec[Len(rec)] = 13

\* C1: every Parse run on a finite input terminates, returning the byte stream or
\* the first error: each matchToken call finishes its scan of the candidates
\* 0xA3..0xFF and each convertLine iteration advances the position.
C1_ParseTerminates == <>(pc = "done")

\* C2: whenever Parse returns an error it returns no bytes at all, however many
\* earlier lines were assembled; bytes are returned only when every non-skipped
\* line assembled and passed the ordering check.
C2_NoBytesOnError ==
  pc = "done" =>
    /\ result.err # "" => result.bytes = <<>>
    /\ result.bytes # <<>> =>
         /\ result.err = ""
         /\ accepted = NonSkipped(read)
         /\ ~Decreasing

\* C2's case: Parse has failed after it had written records to the output
C2_Witness == pc = "done" /\ result.err # "" /\ output # <<>>

\* C3: for a program whose lines each assemble, Parse fails with an ordering
\* error if and only if some line's number is strictly smaller than the number of
\* the nearest preceding non-skipped line; a line with the number of the previous
\* one does not abort: both records are emitted and a warning is printed.
C3_OrderingError ==
  /\ warnings = Duplicates
  /\ (pc = "done" /\ accepted = NonSkipped(read)) =>
       /\ result.err = OrderMessage <=> Decreasing
       /\ ~Decreasing => /\ result.err = ""
                         /\ Len(Records(result.bytes)) = Len(accepted)

\* C3's case: the ordering error is raised across a skipped line
C3_Witness ==
  /\ pc = "done"
  /\ result.err = OrderMessage
  /\ Len(read) = 3
  /\ SkipLine(read[2])

\* C4: every line record starts with the 2 bytes of its line number, then the
\* 2-byte little-endian length of what follows it (record length minus 4), and
\* ends with 0x0D; the output of a successful Parse is one such record per
\* non-skipped input line, in input order, and the walk by the length fields ends
\* exactly at the end of the output.
C4_LineRecords ==
  /\ Len(Records(output)) = Len(Written)
  /\ \A i \in 1..Len(Written) : RecordOf(Records(output)[i], Written[i])
  /\ (pc = "done" /\ result.err = "") =>
       /\ result.bytes = output
       /\ Written = NonSkipped(read)

\* C4's case: a successful Parse of two assembled lines and a skipped one, with a
\* line number above 255
C4_Witness ==
  /\ pc = "done"
  /\ result.err = ""
  /\ Len(accepted) = 2
  /\ Len(read) = 3
  /\ \E i \in 1..2 : LineNumbers[i] > 255

\* the text matchToken (or the next convertLine iteration) looks at
ScanText == Drop(line.text, line.pos)

\* sub occurs in s as a run of consecutive elements
Contains(s, sub) ==
  \E i \in 0..(Len(s) - Len(sub)) : SubSeq(s, i + 1, i + Len(sub)) = sub

\* the line has no string and no comment: every character is in code position
CodeOnly(text) == ~Contains(text, <<"\"">>) /\ ~Contains(text, <<"R","E","M">>)

ConflictMessages ==
  { "program contains 128K keywords but was already marked as 48K",
    "program contains 48K UDGs but was already marked as 128K",
    "UDG not available in 128K mode" }

\* matchToken is scanning at a keyword of the 128K variant
At128KKeyword ==
  /\ pc = "match"
  /\ \/ ScanText = <<"S","P","E","C","T","R","U","M">>
     \/ ScanText = <<"P","L","A","Y">>

\* convertLine is at a {T} or {U} graphics reference inside a string
At48KReference ==
  /\ pc = "convert"
  /\ line.inString
  /\ \/ HasPrefix(ScanText, <<"{","T","}">>)
     \/ HasPrefix(ScanText, <<"{","U","}">>)

\* C5: the dialect flag only moves from Unknown to 128K or from Unknown to 48K
\* and never changes again, and a later token or reference of the other variant
\* aborts the conversion with a dialect-conflict error at that occurrence.
C5_DialectFlag ==
  /\ [][p.is48K # -1 => p'.is48K = p.is48K]_vars
  /\ ((At128KKeyword /\ p.is48K = 1) \/ (At48KReference /\ p.is48K = 0))
       ~> (pc = "done" /\ result.err \in ConflictMessages)

\* matchToken is scanning at a ':' outside strings and comments
AtSeparator == pc = "match" /\ HasPrefix(ScanText, <<":">>)

\* C6: after a ':' separator outside strings and comments the per-statement
\* state is reset: the next token is matched in keyword position, the in-PRINT
\* flag is false, the pending escape parameters are empty and the statement
\* counter is one higher than before the separator.
C6_SeparatorResets ==
  \A n \in {0, 1, MaxStatements} :
    (AtSeparator /\ p.statementCount = n)
      ~> /\ pc = "convert"
         /\ line.expectKeyword
         /\ ~p.inPrint
         /\ p.currentParams = <<>>
         /\ p.statementCount = n + 1

\* the number of ':' of a text
SeparatorCount(text) == Cardinality({i \in 1..Len(text) : text[i] = ":"})

\* C7: a line with more than 127 statement separators outside strings and
\* comments is rejected with a too-many-statements error and produces no record.
C7_TooManyStatements ==
  (pc = "convert" /\ CodeOnly(line.text) /\ SeparatorCount(line.text) > MaxStatements)
    ~> (pc = "done" /\ result.err = "too many statements" /\ result.bytes = <<>>)

\* C8: a BIN literal in a line's expression puts the small-integer encoding of
\* its binary value into the payload (BIN 1010: 0E 00 00 0A 00 00), and the
\* binary digits are not encoded as a decimal number.
C8_BinLiteral ==
  (pc = "convert" /\ CodeOnly(line.text)
     /\ Contains(line.text, <<"B","I","N"," ","1","0","1","0">>))
    ~> /\ Contains(line.lineBuf, <<14, 0, 0, 10, 0, 0>>)
       /\ ~Contains(line.lineBuf, encodeSmallInt(1010))

\* convertLine is at an {AT r c} or {TAB n} escape inside a string
AtPositionEscape ==
  /\ pc = "convert"
  /\ line.inString
  /\ \/ HasPrefix(ScanText, <<"{","A","T"," ">>)
     \/ HasPrefix(ScanText, <<"{","T","A","B"," ">>)

\* matchToken is scanning at the keyword AT or TAB
AtPositionToken ==
  /\ pc = "match"
  /\ \/ HasPrefix(ScanText, <<"A","T"," ">>)
     \/ HasPrefix(ScanText, <<"T","A","B"," ">>)

\* C9: AT and TAB, as tokens or as brace escapes, are accepted only inside a
\* PRINT or LPRINT statement, where the escapes yield 0x16,r,c and 0x17,n (here
\* for the statement PRINT {AT 5 10}); in any other statement the conversion
\* fails with an error.
C9_PositioningInPrint ==
  /\ [][(AtPositionEscape /\ ~p.inPrint) => (pc' = "done" /\ result'.err # "")]_vars
  /\ (AtPositionToken /\ ~p.inPrint) ~> (pc = "done" /\ result.err # "")
  /\ (pc = "convert"
        /\ HasPrefix(line.text, <<"P","R","I","N","T"," ","{","A","T"," ","5"," ","1","0","}">>))
       ~> Contains(line.lineBuf, <<22, 5, 10>>)

\* the text of token t is a prefix of txt (of upper, the upper case of txt,
\* when the matching is case independent)
PrefixOf(t, txt, upper) ==
  IF p.caseIndependent THEN HasPrefix(upper, ToUpper(TokenMap[t].Text))
  ELSE HasPrefix(txt, TokenMap[t].Text)

\* token t at the start of txt is not the beginning of a longer word
WordBoundary(t, txt) ==
  ~(/\ Len(TokenMap[t].Text) < Len(txt)
    /\ isAlpha(txt[Len(TokenMap[t].Text) + 1])
    /\ isAlpha(txt[Len(TokenMap[t].Text)]))

\* the candidates 0xA3..0xFF that match at the start of txt
CandidatesOf(txt, upper) ==
  {t \in FirstToken..255 :
     TokenMap[t].Text # <<>> /\ PrefixOf(t, txt, upper) /\ WordBoundary(t, txt)}

Candidates(txt) == CHOOSE c \in {CandidatesOf(txt, upper) : upper \in {ToUpper(txt)}} : TRUE

\* the locals of the scan select a longest token of the set c
SelectsLongest(c) ==
  /\ mt.found
  /\ mt.matchedToken \in c
  /\ mt.longestMatch = Len(TokenMap[mt.matchedToken].Text)
  /\ \A t \in c : Len(TokenMap[t].Text) <= mt.longestMatch

\* C10: among the tokens whose text is a prefix of the input at a position and
\* that pass the word-boundary check, the scan of matchToken selects the one with
\* the longest text, never a shorter one (VAL$ over VAL).  The property is of
\* the locals when the scan has gone over the candidates up to 0xFF.
C10_LongestMatch ==
  (pc = "match" /\ mt.token = 0) =>
    \A c \in {Candidates(ScanText)} : c # {} => SelectsLongest(c)

\* C10's case: VAL$ is selected where the shorter VAL matches too
C10_Witness ==
  /\ pc = "match"
  /\ mt.token = 0
  /\ mt.matchedToken = 174
  /\ 176 \in Candidates(ScanText)

\* the integer that the bytes b hold by the small-integer layout
\* [marker, 0x00, sign, lo, hi, 0x00]
DecodeSmallInt(b) == (IF b[3] = 255 THEN -1 ELSE 1) * (b[4] + 256 * b[5])

\* C13: for every integer n in [-65535, 65535], encodeSmallInt(n) is the 6 bytes
\* [0x0E, 0x00, sign, lo, hi, 0x00] with sign 0x00 for n >= 0 and 0xFF for n < 0
\* and lo + 256 * hi = |n|, so that decoding the bytes recovers n.
C13_SmallIntRoundTrip ==
  (call.fn = "encodeSmallInt" /\ call.arg >= -65535 /\ call.arg <= 65535) =>
    /\ Len(call.out) = 6
    /\ \A i \in 1..6 : call.out[i] \in 0..255
    /\ call.out[1] = 14 /\ call.out[2] = 0 /\ call.out[6] = 0
    /\ call.out[3] = (IF call.arg < 0 THEN 255 ELSE 0)
    /\ DecodeSmallInt(call.out) = call.arg

\* C13's case: the most negative small integer has been encoded
C13_Witness == call.fn = "encodeSmallInt" /\ call.arg = -65535

\* the scan of matchToken has gone over the candidates up to 0xFF and holds a
\* token whose kind does not fit the position
KindMismatch ==
  /\ pc = "match"
  /\ mt.token = 0
  /\ mt.found
  /\ IF line.expectKeyword
     THEN TokenMap[mt.matchedToken].Type \notin {"Keyword", "Colour"}
     ELSE TokenMap[mt.matchedToken].Type = "Keyword"

\* C11: matchToken returns a Keyword-kind token only when a keyword is expected
\* and a token of another kind than Keyword and Colour only when none is
\* expected; a kind mismatch yields "no match": matchToken returns to
\* convertLine without an error and with the dialect flag as it was.
C11_KindFilter ==
  /\ [][(pc = "match" /\ pc' # "match")
          => \A m \in {MatchTokenResult(mt, line.expectKeyword, p)} :
               m.res = "match"
                 => \/ TokenMap[m.Value].Type = "Colour"
                    \/ (TokenMap[m.Value].Type = "Keyword") = line.expectKeyword]_vars
  /\ \A f \in {-1, 0, 1} :
       (KindMismatch /\ p.is48K = f)
         ~> (pc = "convert" /\ result.err = "" /\ p.is48K = f)

\* every character of the text s is a letter
Alphabetic(s) == \A i \in 1..Len(s) : isAlpha(s[i])

\* the token that the end of matchToken makes of the locals of the scan of a
\* call is a keyword or function written in letters
CallYieldsWord ==
  /\ call.out.found
  /\ Alphabetic(TokenMap[call.out.matchedToken].Text)
  /\ MatchTokenResult(call.out, call.arg.wantKeyword, p).res = "match"

NegativeLiteral(text) ==
  /\ Len(text) > 1
  /\ text[1] = "-"
  /\ \A i \in 2..Len(text) : isDigit(text[i])
  /\ Len(text) <= 6
  /\ DigitsValue(Tail(text)) \in 1..maxInt

\* C14: parseNumber applied to a decimal integer literal with a leading minus
\* sign (-n, 1 <= n <= 65535, e.g. "-42") consumes the sign and the digits and
\* returns the small-integer encoding with sign byte 0xFF and magnitude n.
C14_NegativeLiteral ==
  (call.fn = "parseNumber" /\ NegativeLiteral(call.arg)) =>
    /\ call.out.res = "num"
    /\ call.out.consumed = Len(call.arg)
    /\ \A n \in {DigitsValue(Tail(call.arg))} :
         call.out.Bytes = <<14, 0, 255, n % 256, n \div 256, 0>>

\* C15: parseNumber reports "not a number" (zero characters consumed, no error)
\* for every text that does not begin with a digit or a decimal point, such as
\* a text that begins with a letter of a variable name.
C15_NotANumber ==
  (/\ call.fn = "parseNumber"
   /\ (call.arg = <<>> \/ ~(isDigit(call.arg[1]) \/ call.arg[1] = "."))) =>
    /\ call.out.res = "nil"
    /\ call.out.consumed = 0
    /\ call.out.err = ""

\* the index (0-based) of the first character of text from pos on that is not c
\* for any c of the set cs
RECURSIVE SkipOver(_, _, _)
SkipOver(text, pos, cs) ==
  IF pos < Len(text) /\ text[pos + 1] \in cs THEN SkipOver(text, pos + 1, cs) ELSE pos

\* the value of a text of binary digits
RECURSIVE BinaryValue(_)
BinaryValue(digits) ==
  IF digits = <<>> THEN 0
  ELSE 2 * BinaryValue(SubSeq(digits, 1, Len(digits) - 1))
         + (IF digits[Len(digits)] = "1" THEN 1 ELSE 0)

\* the text begins with BIN
BinPrefix(text) == Len(text) >= 3 /\ SubSeq(text, 1, 3) = <<"B","I","N">>

\* C16: parseBinaryNumber treats a text in which BIN is immediately continued by
\* a letter ("BINARY") as not a binary literal: zero characters consumed and no
\* error; it returns an error only for BIN followed by no binary digit or for a
\* value above 65535, and otherwise stops at the first non-binary character.
C16_BinaryLiteral ==
  call.fn = "parseBinaryNumber" =>
    \A first \in {SkipOver(call.arg, 3, {" "})} :
    \A last \in {SkipOver(call.arg, first, {"0", "1"})} :
    \A word \in {BinPrefix(call.arg) /\ Len(call.arg) > 3 /\ isAlpha(call.arg[4])} :
      /\ word => (call.out.res = "nil" /\ call.out.consumed = 0)
      /\ call.out.res = "err" =>
           /\ BinPrefix(call.arg) /\ ~word
           /\ \/ last = first
              \/ BinaryValue(SubSeq(call.arg, first + 1, last)) > maxInt
      /\ call.out.res = "num" =>
           /\ call.out.consumed = last
           /\ call.out.Bytes = encodeSmallInt(BinaryValue(SubSeq(call.arg, first + 1, last)))

\* C17: the graphics-block escapes agree with the token table: for n in 1..8,
\* {-n} expands to the byte 0x80+(n-1) and {+n} to the byte 0x88+(n-1), so that
\* expanding the display text of a byte of 0x80..0x8F returns that byte.
C17_BlockGraphics ==
  call.fn = "expandSequence" =>
    \A b \in 128..143 :
      call.arg.text = TokenMap[b].Text =>
        /\ call.out.res = "match"
        /\ call.out.Bytes = <<b>>
        /\ call.out.Length = 4

\* the command names of validateControlParam and getControlBytes
KnownCommands ==
  { <<"A","T">>, <<"T","A","B">>, <<"I","N","K">>, <<"P","A","P","E","R">>,
    <<"F","L","A","S","H">>, <<"B","R","I","G","H","T">>,
    <<"I","N","V","E","R","S","E">>, <<"O","V","E","R">> }

\* the number of parameters of a known command
Arity(cmd) == IF cmd = <<"A","T">> THEN 2 ELSE 1

\* what is between the braces of a closed sequence
BraceBody(text) == SubSeq(text, 2, IndexByte(text, "}"))

\* none of the sub-grammars tried before the control codes takes the sequence
NotTakenBefore(seq) ==
  /\ trySpecialCharacter(seq, 0, -1, <<>>).res = "nil"
  /\ tryUDG(seq, 0, -1, <<>>).res = "nil"
  /\ tryBlockGraphics(seq, 0, -1, <<>>).res = "nil"
  /\ tryHexValue(seq, 0, -1, <<>>).res = "nil"

\* the text is a closed brace sequence that reaches tryControlSequence with a
\* command name
ReachesControl(text) ==
  /\ HasPrefix(text, <<"{">>)
  /\ IndexByte(text, "}") # -1
  /\ \A seq \in {BraceBody(text)} : NotTakenBefore(seq) /\ Fields(seq) # <<>>

\* every field after the command name is an integer
IntegerParams(parts) == \A i \in 2..Len(parts) : Atoi(parts[i]).ok

\* C18 as stated: a brace sequence that reaches the control-code sub-grammar with
\* an unknown command name is rejected with an error, whatever number (zero or
\* more) of parameters follows the name; a known command with the wrong number of
\* parameters is an error too.
C18_UnknownControl ==
  (call.fn = "expandSequence" /\ ReachesControl(call.arg.text)) =>
    \A parts \in {Fields(BraceBody(call.arg.text))} :
    \A cmd \in {ToUpper(parts[1])} :
      /\ cmd \notin KnownCommands => call.out.res = "err"
      /\ (cmd \in KnownCommands /\ Len(parts) - 1 # Arity(cmd)) => call.out.res = "err"

\* C18, amended: an unknown command name is rejected with an error exactly when
\* it is followed by at least one parameter and the first one is an integer;
\* with no parameter, or a first parameter that is no integer, the braces are
\* no sequence (no match and no error).  A known command with the wrong number
\* of parameters, all of them integers, is an error.
C18_ControlErrors ==
  (call.fn = "expandSequence" /\ ReachesControl(call.arg.text)) =>
    \A parts \in {Fields(BraceBody(call.arg.text))} :
    \A cmd \in {ToUpper(parts[1])} :
      /\ cmd \notin KnownCommands =>
           IF Len(parts) > 1 /\ Atoi(parts[2]).ok
           THEN call.out.res = "err" /\ call.out.err = "unknown control sequence"
           ELSE call.out.res = "nil" /\ call.out.err = ""
      /\ (cmd \in KnownCommands /\ Len(parts) - 1 # Arity(cmd) /\ IntegerParams(parts))
           => call.out.res = "err"

\* C18's case: an unknown command with an integer parameter has been rejected
C18_Witness ==
  /\ call.fn = "expandSequence"
  /\ ReachesControl(call.arg.text)
  /\ ToUpper(Fields(BraceBody(call.arg.text))[1]) \notin KnownCommands
  /\ Len(Fields(BraceBody(call.arg.text))) > 1
  /\ call.out.res = "err"

\* Parse has just been called: no line has been read yet
ParseCalled == pc = "scan" /\ read = <<>>

BlankOrComment(l) ==
  \A i \in 1..Len(l) : (l[i] # " " /\ \A j \in 1..(i - 1) : l[j] = " ") => l[i] = "#"

\* the scanner of Parse delivers a blank line or a # line
ReadsSkipped ==
  /\ pc = "scan"
  /\ read' # read
  /\ BlankOrComment(read'[Len(read')])

\* C20 as stated: a blank line and a line whose first non-space character is
\* '#' are skipped entirely, not emitted and not counted: the output bytes, the
\* previous line number of the ordering check, the dialect flag and the counter
\* LineCount() reports are as if the line were absent from the input.
C20_SkippedAbsent ==
  [][ReadsSkipped =>
       /\ output' = output
       /\ p'.previousLine = p.previousLine
       /\ p'.is48K = p.is48K
       /\ p'.lineCount = p.lineCount]_vars

\* C20, amended: such a line is skipped and not emitted: Parse goes on to the
\* next line with the output bytes, the previous line number and the dialect flag
\* (and every other field of the parser) as if the line were absent; but it is
\* counted: LineCount() counts source lines, the skipped ones included, and is
\* one higher.
C20_SkippedLines ==
  [][ReadsSkipped =>
       /\ output' = output
       /\ p' = [p EXCEPT !.lineCount = p.lineCount + 1]
       /\ pc' = "scan"
       /\ accepted' = accepted
       /\ result' = result]_vars

\* C20's case: a # line has been skipped after a line was assembled and written
C20_Witness ==
  /\ pc = "scan"
  /\ Len(read) = 2
  /\ BlankOrComment(read[2])
  /\ read[2] # <<" "," ">>
  /\ Len(accepted) = 1
  /\ output # <<>>
  /\ p.lineCount = 2

\* convertLine is inside a string, at a character that is no quote and opens no
\* brace sequence
AtStringCharacter ==
  /\ pc = "convert"
  /\ line.inString
  /\ line.pos < Len(line.text)
  /\ line.text[line.pos + 1] \notin {"\"", "{"}

\* C22: between an opening quote and the next quote every source character is
\* copied to the payload unchanged and only brace escapes are expanded; no token
\* byte and no number encoding is produced inside a string, so that
\* 10 PRINT "HI" yields exactly the record 0A 00 06 00 F5 22 48 49 22 0D.
C22_StringCopied ==
  /\ [][AtStringCharacter =>
          /\ line'.lineBuf = Append(line.lineBuf, Ord(line.text[line.pos + 1]))
          /\ line'.pos = line.pos + 1
          /\ line'.inString]_vars
  /\ (pc = "convert"
        /\ line.source = <<"1","0"," ","P","R","I","N","T"," ","\"","H","I","\"">>)
       ~> Contains(output, <<10, 0, 6, 0, 245, 34, 72, 73, 34, 13>>)

\* the brackets of a text outside its strings, in order: 1 for '(' and -1 for ')'
RECURSIVE BracketSteps(_, _)
BracketSteps(text, inString) ==
  IF text = <<>> THEN <<>>
  ELSE IF Head(text) = "\"" THEN BracketSteps(Tail(text), ~inString)
  ELSE IF ~inString /\ Head(text) = "(" THEN <<1>> \o BracketSteps(Tail(text), inString)
  ELSE IF ~inString /\ Head(text) = ")" THEN <<-1>> \o BracketSteps(Tail(text), inString)
  ELSE BracketSteps(Tail(text), inString)

RECURSIVE SumOf(_)
SumOf(s) == IF s = <<>> THEN 0 ELSE Head(s) + SumOf(Tail(s))

\* no prefix has more ')' than '(', and the totals are equal
Balanced(steps) ==
  /\ \A n \in 1..Len(steps) : SumOf(SubSeq(steps, 1, n)) >= 0
  /\ SumOf(steps) = 0

\* C23: a line is accepted only if, counting '(' and ')' outside strings and
\* comments, no prefix of the line has more ')' than '(' and the two totals are
\* equal at the end of the line; while a line is scanned the bracket depth is
\* the count of the part scanned so far, never negative, and zero at the start of
\* the line.
C23_Brackets ==
  /\ \A i \in 1..Len(accepted) : Balanced(BracketSteps(accepted[i], FALSE))
  /\ pc \in {"convert", "match"} =>
       /\ p.bracketCount >= 0
       /\ p.bracketCount = SumOf(BracketSteps(Take(line.text, line.pos), FALSE))

\* C23's case: a line with a ')' inside a string and a pair of brackets outside
\* it has been accepted
C23_Witness ==
  /\ pc = "scan"
  /\ \E i \in 1..Len(accepted) :
       /\ accepted[i] = <<"9","9","9","9"," ","\"",")","\"","(",")">>
       /\ Len(BracketSteps(accepted[i], FALSE)) = 2

\* convertLine is at the keyword REM, in code position
AtRem == pc = "match" /\ HasPrefix(ScanText, <<"R","E","M">>)

\* C24: once the REM token has been matched on a line the comment state is not
\* left for the rest of the line: every remaining character (spaces, quotes,
\* ':', brackets, digits, keyword text) is copied to the payload unchanged, brace
\* escapes being expanded, and the bracket depth, the statement counter and the
\* in-PRINT flag no longer change.  Here for the line 5 REM a:("1, whose
\* payload is the token 0xEA and the eight characters after REM.
C24_CommentState ==
  /\ [][(pc = "convert" /\ line.inRem /\ pc' # "done")
          => /\ line'.inRem \/ line' = NoLine
             /\ p'.bracketCount = p.bracketCount
             /\ p'.statementCount = p.statementCount
             /\ p'.inPrint = p.inPrint]_vars
  /\ \A n \in {0, 1} :
       (AtRem /\ p.statementCount = n /\ p.bracketCount = 0 /\ ~p.inPrint)
         ~> /\ pc = "convert"
            /\ line.inRem
            /\ line.pos = Len(line.text)
            /\ Contains(line.lineBuf, <<234, 32, 97, 58, 40, 34, 49>>)
            /\ p.statementCount = n /\ p.bracketCount = 0 /\ ~p.inPrint

\* the largest value of parameter i of a known command
ParamBound(cmd, i) ==
  IF cmd = <<"A","T">> THEN (IF i = 1 THEN 23 ELSE 31)
  ELSE IF cmd = <<"T","A","B">> THEN 31
  ELSE IF cmd \in {<<"I","N","K">>, <<"P","A","P","E","R">>} THEN 7
  ELSE 1

\* the integers after the command name
ParamValues(parts) == [i \in 1..(Len(parts) - 1) |-> Atoi(parts[i + 1]).n]

\* parameter i of the command is inside its bounds
InBounds(cmd, params, i) == params[i] >= 0 /\ params[i] <= ParamBound(cmd, i)

\* C25: every parameter byte emitted for a parameterized control code lies
\* within the bounds of its command (AT row 0..23 and column 0..31, TAB 0..31,
\* INK and PAPER 0..7, FLASH, BRIGHT, INVERSE and OVER 0..1); a sequence with a
\* parameter outside its bounds, a negative one included, is an error and emits
\* no bytes.
C25_ParamBounds ==
  (/\ call.fn = "expandSequence"
   /\ ReachesControl(call.arg.text)
   /\ ToUpper(Fields(BraceBody(call.arg.text))[1]) \in KnownCommands
   /\ IntegerParams(Fields(BraceBody(call.arg.text)))) =>
    \A cmd \in {ToUpper(Fields(BraceBody(call.arg.text))[1])} :
    \A params \in {ParamValues(Fields(BraceBody(call.arg.text)))} :
      /\ call.out.res = "match" =>
           /\ Len(call.out.Bytes) = 1 + Len(params)
           /\ Len(params) = Arity(cmd)
           /\ \A i \in 1..Len(params) :
                InBounds(cmd, params, i) /\ call.out.Bytes[i + 1] = params[i]
      /\ (\E i \in 1..Len(params) : i <= Arity(cmd) /\ ~InBounds(cmd, params, i)) =>
           /\ call.out.res = "err"
           /\ call.out.Bytes = <<>>

\* C25's case: AT with its largest row and column has been expanded inside a
\* PRINT statement
C25_Witness ==
  /\ call.fn = "expandSequence"
  /\ call.arg.text = <<"{","A","T"," ","2","3"," ","3","1","}">>
  /\ call.out.res = "match"
  /\ call.out.Bytes = <<22, 23, 31>>

\* matchToken is scanning at the keyword IF or LET, where a keyword is expected
AtIfOrLet ==
  /\ pc = "match"
  /\ line.expectKeyword
  /\ \/ HasPrefix(ScanText, <<"I","F"," ">>)
     \/ HasPrefix(ScanText, <<"L","E","T"," ">>)

BracketMessages ==
  { "IF not allowed within brackets", "LET not allowed within brackets" }

\* C26: an IF or LET keyword matched while the bracket depth is greater than
\* zero aborts the conversion with an error; the same keyword matched at
\* bracket depth zero is not rejected by this rule: its token is put into the
\* payload.
C26_KeywordInBrackets ==
  /\ (AtIfOrLet /\ p.bracketCount > 0)
       ~> (pc = "done" /\ result.err \in BracketMessages)
  /\ (AtIfOrLet /\ p.bracketCount = 0)
       ~> (pc = "convert" /\ Len(line.lineBuf) > 4 /\ line.lineBuf[5] \in {241, 250})

\* matchToken is scanning at the keyword DEF FN
AtDefFn == pc = "match" /\ HasPrefix(ScanText, <<"D","E","F"," ","F","N">>)

\* the number of places of s where sub occurs
Occurrences(s, sub) ==
  Cardinality({i \in 0..(Len(s) - Len(sub)) : SubSeq(s, i + 1, i + Len(sub)) = sub})

\* C27: in a DEF FN statement the 6-byte placeholder 0E 00 00 00 00 00 is
\* inserted exactly once, immediately before the ')' that closes the parameter
\* list opened by the first '(' after DEF FN, and no other ')' of the line
\* receives one (here for 5 DEF FN f(x)=(x)); the flag "inside the header's
\* parentheses" is only ever set while "inside a function-definition header" is
\* set.
C27_DefFnPlaceholder ==
  /\ [](p.insideDEFFN => p.handlingDEFFN)
  /\ AtDefFn
       ~> /\ pc = "convert"
          /\ line.pos = Len(line.text)
          /\ Contains(line.lineBuf, <<40, 120, 14, 0, 0, 0, 0, 0, 41, 61, 40, 120, 41>>)
          /\ Occurrences(line.lineBuf, <<14, 0, 0, 0, 0, 0>>) = 1

\* C28: every ':' statement separator outside strings and comments of a source
\* line yields exactly one ':' byte (0x3A) at the corresponding place of the
\* line's payload; separators are never dropped from the output.  Here for the
\* first character of a line's text: the payload, which follows the four bytes
\* of the line number and the length, begins with the byte 0x3A.
C28_SeparatorEmitted ==
  (AtSeparator /\ line.pos = 0)
    ~> /\ pc = "convert"
       /\ line.pos = 1
       /\ Len(line.lineBuf) = 5
       /\ line.lineBuf[5] = 58

\* the exponent floor(log2 |v|) of the value v = num / den * 2^pow2, v # 0
ExponentOf(v) == FloorLog2(v.num, v.den) + v.pow2

\* C30: for every non-zero value that encodeFloat accepts, that is one whose
\* exponent floor(log2 |v|) lies in the range -129..126, the biased exponent
\* byte is not zero, so that a packed float is never taken for the small-integer
\* form, whose second byte is 0x00; a value with an exponent outside the range
\* is rejected with an error.
C30_ExponentByte ==
  (call.fn = "encodeFloat" /\ call.arg.val.num # 0) =>
    \A e \in {ExponentOf(call.arg.val)} :
      IF e >= minExp /\ e <= maxExp
      THEN call.out.err = "" /\ call.out.Bytes[2] # 0
      ELSE call.out.err # "" /\ call.out.Bytes = <<>>

(***************************************************************************)
(* tap2tzx: the two passes over a configuration                            *)
(***************************************************************************)

\* the call of processConfiguredBlocks whose second pass started block i
SecondPassStarted(i) ==
  /\ call.fn = "processConfiguredBlocks"
  /\ i \in DOMAIN call.out.run.starts

\* C29: the two passes of the tap2tzx configuration path agree: for every
\* block of the configuration, the position the dry run (calculateBlockPositions,
\* calculateBlockSize) has accumulated at the start of the block equals the
\* position of the second pass (processConfigBlock) when it starts that block,
\* whatever the number of TAP blocks in the files named.
C29_PassesAgree ==
  \A i \in 1..2 :
    SecondPassStarted(i) => call.out.dry.starts[i] = call.out.run.starts[i]

(***************************************************************************)
(* The container writer: checksums                                         *)
(***************************************************************************)

\* the bit of weight 2^k of the byte b
BitOf(b, k) == (b \div Pow2(k)) % 2

\* the bytes of the sequence s that have the bit of weight 2^k set
WithBit(s, k) == {i \in DOMAIN s : BitOf(s[i], k) = 1}

\* the exclusive or of the bytes of s, bit by bit: bit k is set when an odd
\* number of the bytes have it set
XorOf(s) ==
  LET bit(k) == Cardinality(WithBit(s, k)) % 2
  IN bit(0) + 2 * bit(1) + 4 * bit(2) + 8 * bit(3) + 16 * bit(4) + 32 * bit(5)
       + 64 * bit(6) + 128 * bit(7)

\* the block ends in the exclusive or of the bytes between its 2-byte length
\* and its last byte, so its body has the exclusive or 0, starts with the flag,
\* and verifyChecksum accepts it
ChecksumEnds(block, flag) ==
  LET n == Len(block)
  IN /\ n >= 4
     /\ block[3] = flag
     /\ block[n] = XorOf(SubSeq(block, 3, n - 1))
     /\ XorOf(SubSeq(block, 3, n)) = 0
     /\ verifyChecksum(SubSeq(block, 3, n - 1), block[n])

\* C21: in every TAP block the container writer writes, header block or data
\* block, the last byte is the exclusive or of all bytes before it after the
\* 2-byte length, the flag byte included, so the exclusive or of the whole
\* body is 0 and verifyChecksum of the loader accepts the block.
C21_Checksum ==
  call.fn = "WriteBasicToTAP" =>
    /\ ChecksumEnds(call.out.header, HeaderFlag)
    /\ ChecksumEnds(call.out.data, DataFlag)

\* a program of two bytes has been written: the checksum of its data block is
\* 255 xor 1 xor 128 = 126
C21_Witness ==
  /\ call.fn = "WriteBasicToTAP"
  /\ call.arg.data = <<1, 128>>
  /\ call.out.data = <<4, 0, 255, 1, 128, 126>>
  /\ Len(call.out.header) = 21
=============================================================================
